---- MODULE Spec2Model ----
(***************************************************************************)
(* A model of the kernel of MP3 to MP6: the contiguous frame allocator     *)
(* (cont_frame_pool.C), the page tables of MP3 and MP4 (page_table.C), the *)
(* virtual memory pools (vm_pool.C), and the schedulers and the blocking   *)
(* disk of MP5 and MP6 (scheduler.C, blocking_disk.C).                     *)
(*                                                                         *)
(* Two pools are registered, as at boot: pool 1 keeps its management       *)
(* information in its own first frame (info_frame_no = 0), pool 2 keeps it *)
(* in an external frame.  The bitmap of a pool is the memory that starts   *)
(* at its management frame, seen as an array of two-bit fields: field i is *)
(* bits (i % 4) * 2 .. (i % 4) * 2 + 1 of byte i / 4.  The constructor     *)
(* writes only the first nframes fields; what follows is memory nobody     *)
(* initialised.                                                            *)
(*                                                                         *)
(* Spec is the allocator alone, SpecPaging the paging unit from            *)
(* init_paging on, SpecVM a kernel with paging on and one VM pool,         *)
(* SpecMP3 the page table of MP3, SpecSched the schedulers and the disk.   *)
(***************************************************************************)
EXTENDS Integers, Sequences, FiniteSets, TLC

\* ------------------------------------------------------- sizes and bounds

\* The number of frames of each pool: the smallest count the constructor's
\* assert(nframes % 8 == 0) lets a pool with frames have.
PoolFrames == 8

\* The non-zero base frame number pool 1 may be given (it may also be 0).
NonZeroBase == 2

\* The largest _n_frames a caller passes to get_frames.
MaxReq == 3

\* The largest _n_frames a caller passes to mark_inaccessible.
MaxMark == 2

\* How many fields of uninitialised memory right after a pool's own fields may
\* hold anything; the memory after them is taken to be zero.
MaxGarbage == 1

\* The number of calls made on the pools in one run of the kernel.
MaxCalls == 5

\* release_frames is not called any more once a pool's free count exceeds its
\* frame count by more than this.
MaxExcess == 1

\* ------------------------------------------------------------------ state

VARIABLES
    base_frame_no,   \* [pool -> first frame number of the pool]
    nframes,         \* [pool -> number of frames of the pool]
    info_frame_no,   \* [pool -> management frame, 0: the pool's first frame]
    nFreeFrames,     \* [pool -> the free-frame counter]
    bitmap,          \* [pool -> [field index -> 0..3, or Uninit]]
    head,            \* the first pool of the registry (ContFramePool::head)
    next,            \* [pool -> next pool of the registry, NULL at the end]
    DEBUG,           \* whether the build defines DEBUG
    halted,          \* an assert(false) was reached: the kernel has stopped
    client,          \* the pool whose get_frames / mark_inaccessible are called
    last,            \* the last call: its name, arguments and return value
    allocs,          \* the get_frames runs not yet released through their head
    strict,          \* so far only get_frames and releases of heads in allocs
    calls,           \* the number of calls made so far
    mem,             \* [frame -> the words of that frame of physical memory]
    cr0,             \* the paging bit (bit 31) of register CR0
    cr3,             \* register CR3: the frame of the loaded page directory
    paging_enabled,  \* PageTable::paging_enabled
    current_page_table, \* PageTable::current_page_table, NULL before a load
    shared_size,     \* PageTable::shared_size, in bytes
    vm_pool_head,    \* PageTable::vm_pool_head, NULL while no pool registered
    page_directory,  \* [page table -> the frame of its directory, NULL: none]
    handled,         \* the faults the last call took: the page, the accepting pool
    base_address,    \* [VM pool -> VMPool::base_address]
    size,            \* [VM pool -> VMPool::size]
    vm_pool_next,    \* [VM pool -> VMPool::vm_pool_next]
    num_regions,     \* [VM pool -> VMPool::num_regions]
    available_memory, \* [VM pool -> VMPool::available_memory, see Avail]
    scheduler,       \* the scheduler class the kernel has built
    ready_queue,     \* Scheduler::ready_queue, RRScheduler::ready_rr_queue
    qsize,           \* Scheduler::qsize, RRScheduler::rr_qsize
    blocked_queue,   \* BlockingDisk::blocked_queue
    blocked_queue_size, \* BlockingDisk::blocked_queue_size
    current_thread,  \* Thread::CurrentThread()
    interrupts_enabled, \* Machine::interrupts_enabled()
    ticks,           \* RRScheduler::ticks
    waited           \* [thread -> the call it began to wait for the disk, 0: none]

\* The variables of the allocator, of the paging unit and of the VM pools.
poolVars == <<base_frame_no, nframes, info_frame_no, nFreeFrames, bitmap, head,
              next, DEBUG, halted, client, last, allocs, strict, calls>>

pagingVars == <<mem, cr0, cr3, paging_enabled, current_page_table, shared_size,
                vm_pool_head, page_directory, handled>>

vmVars == <<base_address, size, vm_pool_next, num_regions, available_memory>>

schedVars == <<scheduler, ready_queue, qsize, blocked_queue, blocked_queue_size,
               current_thread, interrupts_enabled, ticks, waited>>

vars == <<poolVars, pagingVars, vmVars, schedVars>>

Pools == {1, 2}

NULL == 0

\* The value of a field of memory that was never written.
Uninit == 4

\* The fields of bitmap memory the model keeps track of.
MemSlots == NonZeroBase + 2 * PoolFrames + MaxGarbage + 1

\* The PageTable objects and the VMPool objects the kernel may construct.
PageTables == {1, 2}

VMPools == {1, 2}

\* The paging unit and the VM pools before init_paging: nothing constructed.
NoPaging ==
    /\ mem = << >>
    /\ cr0 = FALSE
    /\ cr3 = NULL
    /\ paging_enabled = 0
    /\ current_page_table = NULL
    /\ shared_size = 0
    /\ vm_pool_head = NULL
    /\ page_directory = [t \in PageTables |-> NULL]
    /\ handled = {}
    /\ base_address = [v \in VMPools |-> 0]
    /\ size = [v \in VMPools |-> 0]
    /\ vm_pool_next = [v \in VMPools |-> NULL]
    /\ num_regions = [v \in VMPools |-> 0]
    /\ available_memory = [v \in VMPools |-> 0]

\* The scheduler and the disk before the kernel builds them.
NoScheduler ==
    /\ scheduler = "none"
    /\ ready_queue = << >>
    /\ qsize = 0
    /\ blocked_queue = << >>
    /\ blocked_queue_size = 0
    /\ current_thread = NULL
    /\ interrupts_enabled = FALSE
    /\ ticks = 0
    /\ waited = << >>

\* ------------------------------------------------------------ get/set state

\* get_state: the two-bit field of _frame_no, decoded.
get_state(bm, _frame_no) ==
    LET bitmap_row_index == _frame_no \div 4
        bitmap_col_index == (_frame_no % 4) * 2
        mask_result == bm[bitmap_row_index * 4 + bitmap_col_index \div 2]
    IN  IF mask_result = 0 THEN "Free"
        ELSE IF mask_result = 1 THEN "Used"
        ELSE IF mask_result = 3 THEN "HoS"
        ELSE "Used"

\* v ^ 1 and v ^ 3 on a two-bit field.
Xor1(v) == IF v % 2 = 0 THEN v + 1 ELSE v - 1

Xor3(v) == 3 - v

\* The plausible slip of set_state: the Used case writes the HoS pattern.
set_state_UsedAsHoS(bm, _frame_no, _state) ==
    IF _frame_no \notin DOMAIN bm THEN bm
    ELSE [bm EXCEPT ![_frame_no] =
            IF _state = "Free" THEN 0 ELSE Xor3(@)]

\* set_state: Free clears the field, Used and HoS xor their pattern into it.
\* A write past the memory the model tracks is not recorded.
set_state(bm, _frame_no, _state) ==
    IF _frame_no \notin DOMAIN bm THEN bm
    ELSE [bm EXCEPT ![_frame_no] =
            IF _state = "Free" THEN 0
            ELSE IF _state = "Used" THEN Xor1(@)
            ELSE Xor3(@)]

\* ------------------------------------------------------------- constructor

RECURSIVE InitFree(_, _, _)
\* The constructor's loop: set_state(fno, Free) for fno = 0 .. _n_frames - 1.
InitFree(bm, fno, _n_frames) ==
    IF fno < _n_frames
    THEN InitFree(set_state(bm, fno, "Free"), fno + 1, _n_frames)
    ELSE bm

\* The memory a bitmap is placed on: MaxGarbage fields of it after the pool's
\* own fields were never written, the rest reads as zero.
RawMemory(_n_frames) ==
    [i \in 0 .. MemSlots - 1 |->
        IF i < _n_frames + MaxGarbage THEN Uninit ELSE 0]

\* ContFramePool::ContFramePool: the fields of the new pool.
ContFramePool(_base_frame_no, _n_frames, _info_frame_no) ==
    LET cleared == InitFree(RawMemory(_n_frames), 0, _n_frames)
    IN  [base_frame_no |-> _base_frame_no,
         nframes       |-> _n_frames,
         info_frame_no |-> _info_frame_no,
         nFreeFrames   |-> IF _info_frame_no = 0 THEN _n_frames - 1 ELSE _n_frames,
         bitmap        |-> IF _info_frame_no = 0
                           THEN set_state(cleared, 0, "Used")
                           ELSE cleared]

\* ---------------------------------------------------------------- get_frames

RECURSIVE ScanFree_NoReset(_, _, _, _, _, _)
\* The slip of the search loop that does not reset the count at a used frame.
ScanFree_NoReset(bm, nfr, _n_frames, index, free_frames_start, free_frames_count) ==
    IF index >= nfr THEN <<0, free_frames_start>>
    ELSE IF get_state(bm, index) = "Free"
    THEN LET start == IF free_frames_count = 0 THEN index ELSE free_frames_start
         IN  IF free_frames_count + 1 = _n_frames
             THEN <<1, start>>
             ELSE ScanFree_NoReset(bm, nfr, _n_frames, index + 1, start,
                                   free_frames_count + 1)
    ELSE ScanFree_NoReset(bm, nfr, _n_frames, index + 1, free_frames_start,
                          free_frames_count)

RECURSIVE ScanFree_NextFit(_, _, _, _, _, _)
\* The slip of the search loop that passes over the first window that fits
\* when a later one fits too.
ScanFree_NextFit(bm, nfr, _n_frames, index, free_frames_start, free_frames_count) ==
    IF index >= nfr THEN <<0, free_frames_start>>
    ELSE IF get_state(bm, index) = "Free"
    THEN LET start == IF free_frames_count = 0 THEN index ELSE free_frames_start
         IN  IF free_frames_count + 1 = _n_frames
             THEN LET later == ScanFree_NextFit(bm, nfr, _n_frames, index + 1,
                                                start, 0)
                  IN  IF later[1] = 1 THEN later ELSE <<1, start>>
             ELSE ScanFree_NextFit(bm, nfr, _n_frames, index + 1, start,
                                   free_frames_count + 1)
    ELSE ScanFree_NextFit(bm, nfr, _n_frames, index + 1, free_frames_start, 0)

RECURSIVE ScanFree(_, _, _, _, _, _)
\* The search loop of get_frames: <<available_flag, free_frames_start>>.
ScanFree(bm, nfr, _n_frames, index, free_frames_start, free_frames_count) ==
    IF index >= nfr THEN <<0, free_frames_start>>
    ELSE IF get_state(bm, index) = "Free"
    THEN LET start == IF free_frames_count = 0 THEN index ELSE free_frames_start
         IN  IF free_frames_count + 1 = _n_frames
             THEN <<1, start>>
             ELSE ScanFree(bm, nfr, _n_frames, index + 1, start, free_frames_count + 1)
    ELSE ScanFree(bm, nfr, _n_frames, index + 1, free_frames_start, 0)

RECURSIVE MarkRun(_, _, _, _)
\* The marking loop of get_frames: HoS at free_frames_start, Used after it.
MarkRun(bm, free_frames_start, index, _n_frames) ==
    IF index < free_frames_start + _n_frames
    THEN MarkRun(set_state(bm, index,
                           IF index = free_frames_start THEN "HoS" ELSE "Used"),
                 free_frames_start, index + 1, _n_frames)
    ELSE bm

\* get_frames on pool p whose bitmap is bm and whose free counter is nf: whether
\* it asserted, the new bitmap and counter, and the frame number returned.
get_frames_of(bm, nf, p, _n_frames) ==
    IF _n_frames > nf \/ _n_frames > nframes[p]
    THEN [fatal |-> TRUE, bitmap |-> bm, nFreeFrames |-> nf, output |-> 0]
    ELSE LET found == ScanFree(bm, nframes[p], _n_frames, 0, 0, 0)
         IN  IF found[1] = 1
             THEN [fatal |-> FALSE,
                   bitmap |-> MarkRun(bm, found[2], found[2], _n_frames),
                   nFreeFrames |-> nf - _n_frames,
                   output |-> found[2] + base_frame_no[p]]
             ELSE [fatal |-> TRUE, bitmap |-> bm, nFreeFrames |-> nf,
                   output |-> 0]

\* get_frames on pool p in the current state.
get_frames(p, _n_frames) ==
    get_frames_of(bitmap[p], nFreeFrames[p], p, _n_frames)

\* --------------------------------------------------------- mark_inaccessible

RECURSIVE MarkLoop(_, _, _, _, _, _)
\* The loop of mark_inaccessible over index = _base_frame_no .. : a free frame is
\* marked (HoS for the first index, Used after it) and counted; a frame that is
\* not free asserts in a DEBUG build and is passed over otherwise.
MarkLoop(bm, nf, base, _base_frame_no, _n_frames, index) ==
    IF index >= _base_frame_no + _n_frames
    THEN [fatal |-> FALSE, bitmap |-> bm, nFreeFrames |-> nf]
    ELSE IF get_state(bm, index - base) = "Free"
    THEN MarkLoop(set_state(bm, index - base,
                            IF index = _base_frame_no THEN "HoS" ELSE "Used"),
                  nf - 1, base, _base_frame_no, _n_frames, index + 1)
    ELSE IF DEBUG
    THEN [fatal |-> TRUE, bitmap |-> bm, nFreeFrames |-> nf]
    ELSE MarkLoop(bm, nf, base, _base_frame_no, _n_frames, index + 1)

\* The slip of mark_inaccessible that starts one frame late.
mark_inaccessible_OneLate(p, _base_frame_no, _n_frames) ==
    IF \/ _base_frame_no + _n_frames > base_frame_no[p] + nframes[p]
       \/ _base_frame_no < base_frame_no[p]
    THEN [fatal |-> TRUE, bitmap |-> bitmap[p], nFreeFrames |-> nFreeFrames[p]]
    ELSE MarkLoop(bitmap[p], nFreeFrames[p], base_frame_no[p],
                  _base_frame_no + 1, _n_frames - 1, _base_frame_no + 1)

\* mark_inaccessible on pool p.
mark_inaccessible(p, _base_frame_no, _n_frames) ==
    IF \/ _base_frame_no + _n_frames > base_frame_no[p] + nframes[p]
       \/ _base_frame_no < base_frame_no[p]
    THEN [fatal |-> TRUE, bitmap |-> bitmap[p], nFreeFrames |-> nFreeFrames[p]]
    ELSE MarkLoop(bitmap[p], nFreeFrames[p], base_frame_no[p],
                  _base_frame_no, _n_frames, _base_frame_no)

\* ------------------------------------------------------------ release_frames

RECURSIVE ReleaseWalk(_, _, _, _)
\* The while loop of release_frame_range: the state is read at index - base and
\* written at index.  A field nobody initialised reads as any of its four values.
\* The set of the outcomes.
ReleaseWalk(bm, nf, base, index) ==
    IF bm[index - base] = Uninit
    THEN UNION { ReleaseWalk([bm EXCEPT ![index - base] = v], nf, base, index)
                 : v \in 0 .. 3 }
    ELSE IF get_state(bm, index - base) # "Free"
    THEN ReleaseWalk(set_state(bm, index, "Free"), nf + 1, base, index + 1)
    ELSE {[fatal |-> FALSE, bitmap |-> bm, nFreeFrames |-> nf]}

\* The slip of release_frame_range that frees a frame whatever its state.
release_frame_range_NoHeadCheck(p, _first_frame_no) ==
    ReleaseWalk(set_state(bitmap[p], _first_frame_no, "Free"),
                nFreeFrames[p] + 1, base_frame_no[p], _first_frame_no + 1)

\* release_frame_range on pool p whose bitmap is bm and whose free counter is
\* nf: the set of its outcomes.
release_frame_range_of(bm, nf, p, _first_frame_no) ==
    IF get_state(bm, _first_frame_no - base_frame_no[p]) = "HoS"
    THEN ReleaseWalk(set_state(bm, _first_frame_no, "Free"),
                     nf + 1, base_frame_no[p], _first_frame_no + 1)
    ELSE {[fatal |-> TRUE, bitmap |-> bm, nFreeFrames |-> nf]}

\* release_frame_range on pool p in the current state.
release_frame_range(p, _first_frame_no) ==
    release_frame_range_of(bitmap[p], nFreeFrames[p], p, _first_frame_no)

RECURSIVE FindPool(_, _)
\* The registry walk of release_frames from pool temp: the pool whose range
\* holds _first_frame_no, NULL when the list ends without one.
FindPool(temp, _first_frame_no) ==
    IF temp = NULL THEN NULL
    ELSE IF /\ _first_frame_no >= base_frame_no[temp]
            /\ _first_frame_no < base_frame_no[temp] + nframes[temp]
    THEN temp
    ELSE FindPool(next[temp], _first_frame_no)

\* ----------------------------------------------------------------- actions

\* The frame numbers callers pass to release_frames: every frame of the client
\* pool, the first two frames of the other pool, and the frame after the last
\* pool, which no pool holds.
FrameArgs ==
    { base_frame_no[client] + k : k \in 0 .. nframes[client] - 1 }
        \cup { base_frame_no[p] + k : p \in Pools \ {client}, k \in {0, 1} }
        \cup { base_frame_no[2] + nframes[2] }

\* The first frames callers pass to mark_inaccessible: the first, third and
\* fourth frame of the client pool and the frame after its last.
MarkArgs ==
    { base_frame_no[client] + k : k \in {0, 2, 3, nframes[client]} }

Call(op, p, a, n, ret, fatal) ==
    [op |-> op, pool |-> p, arg |-> a, n |-> n, ret |-> ret, fatal |-> fatal]

Init ==
    /\ \E b \in {0, NonZeroBase} :
         LET p1 == ContFramePool(b, PoolFrames, 0)
             p2 == ContFramePool(b + PoolFrames, PoolFrames, b + 2 * PoolFrames)
             P  == <<p1, p2>>
         IN  /\ base_frame_no = [p \in Pools |-> P[p].base_frame_no]
             /\ nframes       = [p \in Pools |-> P[p].nframes]
             /\ info_frame_no = [p \in Pools |-> P[p].info_frame_no]
             /\ nFreeFrames   = [p \in Pools |-> P[p].nFreeFrames]
             /\ bitmap        = [p \in Pools |-> P[p].bitmap]
    /\ head = 1
    /\ next = [p \in Pools |-> IF p = 1 THEN 2 ELSE NULL]
    /\ DEBUG \in BOOLEAN
    /\ halted = FALSE
    /\ client \in Pools
    /\ last = Call("construct", 0, 0, 0, 0, FALSE)
    /\ allocs = {}
    /\ strict = TRUE
    /\ calls = 0
    /\ NoPaging
    /\ NoScheduler

\* A call of client.get_frames(n).
GetFrames(n) ==
    /\ ~halted
    /\ calls < MaxCalls
    /\ calls' = calls + 1
    /\ LET r == get_frames(client, n)
       IN  /\ bitmap' = [bitmap EXCEPT ![client] = r.bitmap]
           /\ nFreeFrames' = [nFreeFrames EXCEPT ![client] = r.nFreeFrames]
           /\ halted' = r.fatal
           /\ last' = Call("get_frames", client, 0, n, r.output, r.fatal)
           /\ allocs' = IF r.fatal THEN allocs
                        ELSE allocs \cup {[head |-> r.output, n |-> n]}
           /\ UNCHANGED strict
    /\ UNCHANGED <<base_frame_no, nframes, info_frame_no, head, next, DEBUG, client>>
    /\ UNCHANGED <<pagingVars, vmVars, schedVars>>

\* A call of client.mark_inaccessible(b, n).
MarkInaccessible(b, n) ==
    /\ ~halted
    /\ calls < MaxCalls
    /\ calls' = calls + 1
    /\ LET r == mark_inaccessible(client, b, n)
       IN  /\ bitmap' = [bitmap EXCEPT ![client] = r.bitmap]
           /\ nFreeFrames' = [nFreeFrames EXCEPT ![client] = r.nFreeFrames]
           /\ halted' = r.fatal
           /\ last' = Call("mark_inaccessible", client, b, n, 0, r.fatal)
           /\ strict' = (strict /\ r.fatal)
           /\ UNCHANGED allocs
    /\ UNCHANGED <<base_frame_no, nframes, info_frame_no, head, next, DEBUG, client>>
    /\ UNCHANGED <<pagingVars, vmVars, schedVars>>

\* A call of the static ContFramePool::release_frames(f).
ReleaseFrames(f) ==
    /\ ~halted
    /\ calls < MaxCalls
    /\ calls' = calls + 1
    /\ \A p \in Pools : nFreeFrames[p] <= nframes[p] + MaxExcess
    /\ LET temp == FindPool(head, f)
       IN  IF temp = NULL
           THEN /\ halted' = TRUE
                /\ last' = Call("release_frames", NULL, f, 0, 0, TRUE)
                /\ UNCHANGED <<bitmap, nFreeFrames, allocs, strict>>
           ELSE \E r \in release_frame_range(temp, f) :
                /\ bitmap' = [bitmap EXCEPT ![temp] = r.bitmap]
                /\ nFreeFrames' = [nFreeFrames EXCEPT ![temp] = r.nFreeFrames]
                /\ halted' = r.fatal
                /\ last' = Call("release_frames", temp, f, 0, 0, r.fatal)
                /\ allocs' = IF r.fatal THEN allocs
                             ELSE { a \in allocs : a.head # f }
                /\ strict' = (strict /\ (r.fatal \/ \E a \in allocs : a.head = f))
    /\ UNCHANGED <<base_frame_no, nframes, info_frame_no, head, next, DEBUG, client>>
    /\ UNCHANGED <<pagingVars, vmVars, schedVars>>

Next ==
    \/ \E n \in 0 .. MaxReq : GetFrames(n)
    \/ \E b \in MarkArgs, n \in 1 .. MaxMark : MarkInaccessible(b, n)
    \/ \E f \in FrameArgs : ReleaseFrames(f)

Spec == Init /\ [][Next]_vars

\* ------------------------------------------------------------------ types

TypeOK ==
    /\ \A p \in Pools : \A i \in 0 .. nframes[p] - 1 : bitmap[p][i] \in {0, 1, 3}
    /\ \A p \in Pools : nFreeFrames[p] >= 0

\* ------------------------------------------------------- reading the state

\* The state of the frame at index i of pool p, now and after the step.
StateOf(p, i) == get_state(bitmap[p], i)

StateOfNext(p, i) == get_state(bitmap'[p], i)

Frames(p) == 0 .. nframes[p] - 1

RECURSIVE SumSizes(_)
SumSizes(as) ==
    IF as = {} THEN 0
    ELSE LET a == CHOOSE x \in as : TRUE IN a.n + SumSizes(as \ {a})

\* The runs of allocs whose head is a frame of pool p.
AllocsOf(p) ==
    { a \in allocs : /\ a.head >= base_frame_no[p]
                     /\ a.head < base_frame_no[p] + nframes[p] }

\* The index after the run that starts at index o: the first index after o
\* whose frame is Free or HoS, or the end of the pool.
RunEnd(p, o) ==
    LET stops == { i \in Frames(p) : i > o /\ StateOf(p, i) # "Used" }
    IN  IF stops = {} THEN nframes[p]
        ELSE CHOOSE i \in stops : \A j \in stops : i <= j

\* Frames i .. i + n - 1 of pool p are frames of the pool and all Free.
FreeWindow(p, i, n) ==
    /\ i >= 0
    /\ i + n <= nframes[p]
    /\ \A j \in i .. i + n - 1 : StateOf(p, j) = "Free"

\* The step is a call of the named operation.
Called(op) == calls' = calls + 1 /\ last'.op = op

\* The step changes no bitmap and no free count of any pool.
NothingChanged == bitmap' = bitmap /\ nFreeFrames' = nFreeFrames

\* ------------------------------------------------------------------ claims

\* C1: after any sequence of successful get_frames and release_frames calls, each
\* release naming the head of a run still allocated, the free count of a pool is
\* its frame count minus the sizes of the runs not yet released, minus one for a
\* management frame kept inside the pool.
C1_RunAccounting ==
    strict =>
        \A p \in Pools :
            nFreeFrames[p] = nframes[p] - SumSizes(AllocsOf(p))
                             - (IF info_frame_no[p] = 0 THEN 1 ELSE 0)

\* C2: a successful get_frames(n), n >= 1, that returns f leaves frame f HoS and
\* frames f+1 .. f+n-1 Used, f being the pool base plus the offset of the run of
\* frames the call changed, and lowers the free count by exactly n.
C2_GetFramesMarksRun ==
    [][(Called("get_frames") /\ ~last'.fatal /\ last'.n >= 1) =>
        LET p == last'.pool
            n == last'.n
            o == last'.ret - base_frame_no[p]
        IN  /\ o \in Frames(p) /\ o + n <= nframes[p]
            /\ StateOfNext(p, o) = "HoS"
            /\ \A i \in o + 1 .. o + n - 1 : StateOfNext(p, i) = "Used"
            /\ \A i \in Frames(p) :
                 (bitmap'[p][i] # bitmap[p][i]) <=> (i \in o .. o + n - 1)
            /\ nFreeFrames'[p] = nFreeFrames[p] - n
            /\ \A q \in Pools \ {p} :
                 bitmap'[q] = bitmap[q] /\ nFreeFrames'[q] = nFreeFrames[q]]_vars

\* C2's case: a get_frames for several frames has returned.
C2_Witness ==
    /\ last.op = "get_frames" /\ ~last.fatal /\ last.n = MaxReq
    /\ last.ret > base_frame_no[last.pool] + 1

\* C3: release_frames(h), h the head of a run of n frames of a registered pool,
\* leaves every frame h .. h+n-1 of the pool Free and raises the pool's free
\* count by exactly n.
C3_ReleaseFreesRun ==
    [][(Called("release_frames") /\ ~last'.fatal) =>
        LET p == last'.pool
            o == last'.arg - base_frame_no[p]
            n == RunEnd(p, o) - o
        IN  /\ \A i \in o .. o + n - 1 : StateOfNext(p, i) = "Free"
            /\ nFreeFrames'[p] = nFreeFrames[p] + n]_vars

\* C4: when another run starts right after the released run, release_frames
\* stops at its head: the frames of the following run keep their states and are
\* not counted as freed.
C4_ReleaseStopsAtHead ==
    [][(Called("release_frames") /\ ~last'.fatal) =>
        LET p == last'.pool
            o == last'.arg - base_frame_no[p]
            e == RunEnd(p, o)
        IN  (e < nframes[p] /\ StateOf(p, e) = "HoS") =>
                /\ \A i \in e .. RunEnd(p, e) - 1 : StateOfNext(p, i) = StateOf(p, i)
                /\ nFreeFrames'[p] = nFreeFrames[p] + (e - o)]_vars

\* C5: release_frames(f) for a frame f of a registered pool whose state is not
\* HoS is a fatal error and changes no frame state and no free count.
C5_ReleaseNonHeadRejected ==
    [][(/\ Called("release_frames")
        /\ last'.pool # NULL
        /\ StateOf(last'.pool, last'.arg - base_frame_no[last'.pool]) # "HoS") =>
            halted' /\ NothingChanged]_vars

\* C5's case: the release of an interior frame of a run was rejected.
C5_Witness ==
    /\ halted /\ last.op = "release_frames" /\ last.pool # NULL
    /\ LET o == last.arg - base_frame_no[last.pool]
       IN  /\ o >= 2
           /\ StateOf(last.pool, o) = "Used"
           /\ StateOf(last.pool, o - 1) = "HoS"

\* C6: get_frames(n) with n above the free count, or with no n consecutive Free
\* frames in the pool, is a fatal error and changes no frame state and no free
\* count.
C6_GetFramesFailsClean ==
    [][(/\ Called("get_frames")
        /\ \/ last'.n > nFreeFrames[last'.pool]
           \/ ~\E i \in Frames(last'.pool) : FreeWindow(last'.pool, i, last'.n)) =>
            halted' /\ NothingChanged]_vars

\* C6's case: enough frames were free, but no n of them in a row.
C6_Witness ==
    /\ halted /\ last.op = "get_frames"
    /\ last.n >= 2 /\ last.n <= nFreeFrames[last.pool]
    /\ Cardinality({ i \in Frames(last.pool) : StateOf(last.pool, i) = "Free" })
         >= last.n

\* C7: a successful get_frames(n) returns the lowest index i of the pool such
\* that frames i .. i+n-1 were all Free before the call.
C7_FirstFit ==
    [][(Called("get_frames") /\ ~last'.fatal) =>
        LET p == last'.pool
            n == last'.n
            o == last'.ret - base_frame_no[p]
        IN  /\ FreeWindow(p, o, n)
            /\ \A i \in Frames(p) : i < o => ~FreeWindow(p, i, n)]_vars

\* C7's case: the run returned lies after a Free frame that began no window of
\* n Free frames.
C7_Witness ==
    /\ last.op = "get_frames" /\ ~last.fatal /\ last.n >= 2
    /\ \E i \in Frames(last.pool) :
         /\ i < last.ret - base_frame_no[last.pool]
         /\ StateOf(last.pool, i) = "Free"

\* A pool of 8 frames was constructed and then only its frames 2 and 3 were
\* marked, by mark_inaccessible(base+2, 2).
OnlyFrames23Marked ==
    /\ nframes[client] = 8
    /\ calls = 1
    /\ last.op = "mark_inaccessible" /\ ~last.fatal
    /\ last.arg = base_frame_no[client] + 2 /\ last.n = 2

\* C8 as amended: in a pool of 8 frames with frames 2 and 3 pre-marked by
\* mark_inaccessible, get_frames(3) succeeds with the run of frames 4, 5, 6 and
\* returns base+4.
C8_FragmentationReturns4 ==
    [][(OnlyFrames23Marked /\ Called("get_frames") /\ last'.n = 3) =>
            ~last'.fatal /\ last'.ret = base_frame_no[client] + 4]_vars

\* C8 as stated: the same call returns base+5.
C8_FragmentationReturns5 ==
    [][(OnlyFrames23Marked /\ Called("get_frames") /\ last'.n = 3) =>
            ~last'.fatal /\ last'.ret = base_frame_no[client] + 5]_vars

\* C8's case: get_frames(3) has returned on the pool with frames 2, 3 pre-marked.
C8_Witness ==
    /\ calls = 2 /\ last.op = "get_frames" /\ last.n = 3 /\ ~last.fatal
    /\ ~strict
    /\ StateOf(client, 1) = "Free"
    /\ StateOf(client, 2) = "HoS" /\ StateOf(client, 3) = "Used"
    /\ StateOf(client, 4) = "HoS" /\ StateOf(client, 5) = "Used"
    /\ StateOf(client, 6) = "Used" /\ StateOf(client, 7) = "Free"

\* C9: mark_inaccessible(b, n) over a range that is not inside the pool or that
\* holds a frame already not Free is a fatal error and changes no frame state
\* and no free count.
C9_MarkFailsClean ==
    [][(/\ Called("mark_inaccessible")
        /\ LET p == last'.pool
               lo == last'.arg - base_frame_no[p]
           IN  \/ lo < 0
               \/ lo + last'.n > nframes[p]
               \/ \E i \in lo .. lo + last'.n - 1 : StateOf(p, i) # "Free") =>
            halted' /\ NothingChanged]_vars

\* C10: in every reachable state no Used frame sits at index 0 of a pool or right
\* after a Free frame: every block of frames that are not Free begins with a HoS
\* frame.
C10_RunsBeginWithHead ==
    \A p \in Pools : \A i \in Frames(p) :
        StateOf(p, i) = "Used" => (i > 0 /\ StateOf(p, i - 1) # "Free")

\* ====================================================== physical memory (MP4)

\* A frame and a page hold PAGE_SIZE bytes, which is ENTRIES_PER_PAGE words of
\* four bytes: a page directory and a page table have that many entries.
PAGE_SIZE == 4096

ENTRIES_PER_PAGE == 1024

\* The pools init_paging is given at boot: PageTable::kernel_mem_pool and
\* PageTable::process_mem_pool.
kernel_mem_pool == 1

process_mem_pool == 2

\* What a word of memory nobody has written may hold: zero, or a word whose
\* present bit is set and whose frame bits name frame 0.
GarbageWords == {0, 1}

\* What memory holds when the kernel starts: every frame has the word `last' in
\* its last word and the word `word' everywhere else.
MemoryImages ==
    { [word |-> 0, last |-> 0], [word |-> 1, last |-> 1],
      [word |-> 0, last |-> 1] }

\* The present bit (bit 0) of an entry and the frame its bits 12..31 name.
Present(w) == w % 2 = 1

FrameOf(w) == w \div PAGE_SIZE

\* w | 0b10.
Or2(w) == IF (w \div 2) % 2 = 1 THEN w ELSE w + 2

\* The words of one frame are kept as a set of segments lo .. hi that cover the
\* indices 0 .. ENTRIES_PER_PAGE - 1: "const" holds v at every index, "ident"
\* holds ((i + v) * PAGE_SIZE) | 0b11 at index i.
Segment(lo, hi, kind, v) == [lo |-> lo, hi |-> hi, kind |-> kind, v |-> v]

\* A frame nobody has written since the kernel started with memory image g.
Fresh(g) ==
    { Segment(0, ENTRIES_PER_PAGE - 2, "const", g.word),
      Segment(ENTRIES_PER_PAGE - 1, ENTRIES_PER_PAGE - 1, "const", g.last) }

\* The word at index i of a segment.
WordOf(s, i) == IF s.kind = "ident" THEN (i + s.v) * PAGE_SIZE + 3 ELSE s.v

SegmentAt(c, i) == CHOOSE s \in c : s.lo <= i /\ i <= s.hi

\* The parts of the segments of c outside a .. b.
Outside(c, a, b) ==
    { Segment(s.lo, IF s.hi < a THEN s.hi ELSE a - 1, s.kind, s.v)
        : s \in { x \in c : x.lo < a } }
    \cup { Segment(IF s.lo > b THEN s.lo ELSE b + 1, s.hi, s.kind, s.v)
        : s \in { x \in c : x.hi > b } }

\* The parts of the segments of c inside a .. b, with 0b10 or-ed in.
Or2Inside(c, a, b) ==
    { Segment(IF s.lo < a THEN a ELSE s.lo, IF s.hi > b THEN b ELSE s.hi,
              s.kind, IF s.kind = "const" THEN Or2(s.v) ELSE s.v)
        : s \in { x \in c : x.lo <= b /\ x.hi >= a } }

\* The words c after the stores of kind op.kind to the indices a .. b.
StoreIn(c, a, b, op) ==
    IF op.kind = "or2"
    THEN Outside(c, a, b) \cup Or2Inside(c, a, b)
    ELSE Outside(c, a, b) \cup {Segment(a, b, op.kind, op.v)}

\* ------------------------------------------------------------- the machine

\* The state the operations of the paging unit read and write, as one record.
\* A call starts with no fault taken.
Machine ==
    [mem |-> mem, bitmap |-> bitmap, nFreeFrames |-> nFreeFrames,
     halted |-> halted, cr0 |-> cr0, cr3 |-> cr3,
     paging_enabled |-> paging_enabled,
     current_page_table |-> current_page_table,
     vm_pool_head |-> vm_pool_head, page_directory |-> page_directory,
     handled |-> {},
     base_address |-> base_address, size |-> size,
     vm_pool_next |-> vm_pool_next, num_regions |-> num_regions,
     available_memory |-> available_memory]

\* assert(false), or a fault the handler cannot return from.
Halt(m) == [m EXCEPT !.halted = TRUE]

\* A store to the words a .. b of frame f; memory the model does not keep track
\* of swallows it.
PStore(m, f, a, b, op) ==
    IF f \in DOMAIN m.mem
    THEN [m EXCEPT !.mem[f] = StoreIn(@, a, b, op)]
    ELSE m

\* A read of word i of frame f: the outcomes, each with the word read.  Memory
\* the model does not keep track of reads as any word of GarbageWords.
PRead(m, f, i) ==
    IF f \notin DOMAIN m.mem
    THEN { [m |-> m, w |-> g] : g \in GarbageWords }
    ELSE { [m |-> m, w |-> WordOf(SegmentAt(m.mem[f], i), i)] }

\* No frame: the translation of a page that is not mapped.
NoFrame == 0 - 1

\* The directory index and the table index of a page (of its linear address:
\* bits 22..31 and bits 12..21).
DirInd(page) == page \div ENTRIES_PER_PAGE

TableInd(page) == page % ENTRIES_PER_PAGE

\* The walk of the memory management unit for a page: the outcomes, each with
\* the frame the page is mapped to, NoFrame when an entry on the way is not
\* present.  With the paging bit clear a linear address is the physical one.
Translate(m, page) ==
    IF ~m.cr0 THEN { [m |-> m, frame |-> page] }
    ELSE UNION {
           IF ~Present(d.w) THEN { [m |-> d.m, frame |-> NoFrame] }
           ELSE { [m |-> t.m,
                   frame |-> IF Present(t.w) THEN FrameOf(t.w) ELSE NoFrame]
                  : t \in PRead(d.m, FrameOf(d.w), TableInd(page)) }
           : d \in PRead(m, m.cr3, DirInd(page)) }

\* ------------------------------------------------------------ page faults

\* How many page faults may be in service at once, each raised inside the
\* handler of the one before: one more and the kernel's stack is gone.
MaxNesting == 4

\* A linear address: its page number and the byte offset in the page.
Addr(page, off) == [page |-> page, off |-> off]

AddrOf(x) == Addr(x \div PAGE_SIZE, x % PAGE_SIZE)

\* a < x and a > x for a linear address a and a byte count x.
Below(a, x) ==
    \/ a.page < x \div PAGE_SIZE
    \/ a.page = x \div PAGE_SIZE /\ a.off < x % PAGE_SIZE

Above(a, x) ==
    \/ a.page > x \div PAGE_SIZE
    \/ a.page = x \div PAGE_SIZE /\ a.off > x % PAGE_SIZE

\* The slip of is_legitimate that shuts the window's upper end out.
is_legitimate_Exclusive(m, v, _address) ==
    IF \/ Below(_address, m.base_address[v])
       \/ ~Below(_address, m.base_address[v] + m.size[v])
    THEN FALSE
    ELSE TRUE

\* VMPool::is_legitimate of pool v.
is_legitimate(m, v, _address) ==
    IF \/ Below(_address, m.base_address[v])
       \/ Above(_address, m.base_address[v] + m.size[v])
    THEN FALSE
    ELSE TRUE

RECURSIVE LegitWalk(_, _, _)
\* The loop of handle_fault over the registered pools, from pool temp: the
\* values of temp and present_flag when it is left.
LegitWalk(m, temp, fault_addr) ==
    IF temp = NULL THEN [temp |-> NULL, present_flag |-> 0]
    ELSE IF is_legitimate(m, temp, fault_addr) = TRUE
    THEN [temp |-> temp, present_flag |-> 1]
    ELSE LegitWalk(m, m.vm_pool_next[temp], fault_addr)

\* pool->get_frames(1) in machine m: the machine after it and the frame.
GetFrame(m, p) ==
    IF m.halted THEN [m |-> m, frame |-> 0]
    ELSE LET r == get_frames_of(m.bitmap[p], m.nFreeFrames[p], p, 1)
         IN  [m |-> [m EXCEPT !.bitmap[p] = r.bitmap,
                              !.nFreeFrames[p] = r.nFreeFrames,
                              !.halted = r.fatal],
              frame |-> r.output]

\* The page of the linear address 0xFFFFF000, through which the handler reaches
\* the directory, and of (0x3FF << 22) | (d << 12), through which it reaches
\* the table of directory index d.
DirectoryPage == (ENTRIES_PER_PAGE - 1) * ENTRIES_PER_PAGE + (ENTRIES_PER_PAGE - 1)

TablePage(d) == (ENTRIES_PER_PAGE - 1) * ENTRIES_PER_PAGE + d

\* The indices of frame f whose words are entries on the walk for a page that
\* is mapped: the directory entry when f is the loaded directory, the table
\* entry when f is the frame the directory entry names.
WalkEntries(m, f, page) ==
    IF ~m.cr0 THEN {}
    ELSE (IF f = m.cr3 THEN {DirInd(page)} ELSE {})
         \cup (IF \E d \in PRead(m, m.cr3, DirInd(page)) : FrameOf(d.w) = f
               THEN {TableInd(page)} ELSE {})

RECURSIVE Map(_, _, _, _)
RECURSIVE handle_fault(_, _, _)
RECURSIVE Store(_, _, _, _, _, _)

\* An access to the byte at offset off of a page, with depth more faults allowed
\* in service: the walk, and on a page fault the handler and the access again.
\* The outcomes, each with the frame reached.
Map(m, page, off, depth) ==
    IF m.halted THEN { [m |-> m, frame |-> NoFrame] }
    ELSE UNION {
           IF t.frame # NoFrame THEN {t}
           ELSE IF depth = 0 THEN { [m |-> Halt(t.m), frame |-> NoFrame] }
           ELSE UNION { Map(h, page, off, depth)
                        : h \in handle_fault(t.m, Addr(page, off), depth - 1) }
           : t \in Translate(m, page) }

\* A load of word ind of the array that starts at a page.
LoadWord(m, page, ind, depth) ==
    UNION { IF t.m.halted THEN { [m |-> t.m, w |-> 0] }
            ELSE PRead(t.m, t.frame, ind % ENTRIES_PER_PAGE)
            : t \in Map(m, page + ind \div ENTRIES_PER_PAGE,
                         4 * (ind % ENTRIES_PER_PAGE), depth) }

\* The stores, one after the other, to the words lo .. hi of the array that
\* starts at a page.  The words of one page are stored at once up to the first
\* that is an entry on the walk for that very page.
Store(m, page, lo, hi, op, depth) ==
    IF m.halted \/ lo > hi THEN {m}
    ELSE LET pg == page + lo \div ENTRIES_PER_PAGE
             i  == lo % ENTRIES_PER_PAGE
             e  == IF hi - lo < ENTRIES_PER_PAGE - 1 - i
                   THEN i + (hi - lo) ELSE ENTRIES_PER_PAGE - 1
         IN  UNION {
               IF t.m.halted THEN {t.m}
               ELSE LET on == { c \in WalkEntries(t.m, t.frame, pg) :
                                  i <= c /\ c <= e }
                        to == IF on = {} THEN e
                              ELSE CHOOSE c \in on : \A x \in on : c <= x
                        at == IF op.kind = "ident"
                              THEN [kind |-> "ident", v |-> lo - i]
                              ELSE op
                    IN  Store(PStore(t.m, t.frame, i, to, at), page,
                              lo + (to - i) + 1, hi, op, depth)
               : t \in Map(m, pg, 4 * i, depth) }

Const(w) == [kind |-> "const", v |-> w]

\* handle_fault, a page for the faulting address: lines 146-151 when the
\* directory entry was not present, lines 153-159 when it was.
MapPage(m, fault_addr, depth) ==
    LET new_pde == GetFrame(m, process_mem_pool)
    IN  Store(new_pde.m, TablePage(DirInd(fault_addr.page)),
              TableInd(fault_addr.page), TableInd(fault_addr.page),
              Const(new_pde.frame * PAGE_SIZE + 3), depth)

\* The slip of handle_fault that installs the new page table and no page.
MapTableAndPage_NoPage(m, fault_addr, depth) ==
    LET new_page_table == GetFrame(m, process_mem_pool)
        page_dir_ind == DirInd(fault_addr.page)
    IN  UNION { Store(m2, new_page_table.frame, 0, ENTRIES_PER_PAGE - 1,
                      Const(4), depth)
                : m2 \in Store(new_page_table.m, DirectoryPage,
                               page_dir_ind, page_dir_ind,
                               Const(new_page_table.frame * PAGE_SIZE + 3),
                               depth) }

\* handle_fault, the directory entry not present: lines 131-152.
MapTableAndPage(m, fault_addr, depth) ==
    LET new_page_table == GetFrame(m, process_mem_pool)
        page_dir_ind == DirInd(fault_addr.page)
    IN  UNION { UNION { MapPage(m3, fault_addr, depth)
                        : m3 \in Store(m2, new_page_table.frame,
                                       0, ENTRIES_PER_PAGE - 1, Const(4), depth) }
                : m2 \in Store(new_page_table.m, DirectoryPage,
                               page_dir_ind, page_dir_ind,
                               Const(new_page_table.frame * PAGE_SIZE + 3),
                               depth) }

\* PageTable::handle_fault for a fault on a page that is not present
\* (err_code & 1 = 0) at fault_addr, the value of CR2.
handle_fault(m, fault_addr, depth) ==
    LET walk == LegitWalk(m, m.vm_pool_head, fault_addr)
        m0 == [m EXCEPT !.handled =
                 @ \cup {[page |-> fault_addr.page, pool |-> walk.temp,
                          present_flag |-> walk.present_flag]}]
    IN  IF walk.temp # NULL /\ walk.present_flag = 0 THEN {Halt(m0)}
        ELSE UNION {
               IF r.m.halted THEN {r.m}
               ELSE IF ~Present(r.w)
               THEN MapTableAndPage(r.m, fault_addr, depth)
               ELSE MapPage(r.m, fault_addr, depth)
               : r \in LoadWord(m0, m0.cr3, DirInd(fault_addr.page), depth) }

\* The page of address a is mapped in machine m: the walk of the memory
\* management unit finds the directory entry and the table entry present.
Mapped(m, a) == \A t \in Translate(m, a.page) : t.frame # NoFrame

\* The directory entry for address a in the loaded directory is present.
DirPresent(m, a) == \A d \in PRead(m, m.cr3, DirInd(a.page)) : Present(d.w)

\* ------------------------------------------------------------- PageTable

\* The constructor of page table t: lines 27-65.  Every store goes to the
\* linear address the code computes from a frame number.
PageTable(m, t) ==
    LET num_shared_frames == shared_size \div PAGE_SIZE
        dir == GetFrame([m EXCEPT !.paging_enabled = 0], kernel_mem_pool)
        m1  == [dir.m EXCEPT !.page_directory[t] = dir.frame]
    IN  UNION { LET page_table == GetFrame(m2, process_mem_pool)
                IN  UNION { UNION { Store(m4, page_table.frame,
                                          0, num_shared_frames - 1,
                                          [kind |-> "ident", v |-> 0],
                                          MaxNesting)
                                    : m4 \in Store(m3, dir.frame,
                                                   1, num_shared_frames - 2,
                                                   [kind |-> "or2", v |-> 0],
                                                   MaxNesting) }
                            : m3 \in Store(page_table.m, dir.frame, 0, 0,
                                Const(page_table.frame * PAGE_SIZE + 3),
                                MaxNesting) }
                : m2 \in Store(m1, dir.frame,
                               num_shared_frames - 1, num_shared_frames - 1,
                               Const(dir.frame * PAGE_SIZE + 3), MaxNesting) }

\* PageTable::load of page table t.
load(m, t) ==
    [m EXCEPT !.current_page_table = t, !.cr3 = m.page_directory[t]]

\* PageTable::enable_paging.
enable_paging(m) == [m EXCEPT !.cr0 = TRUE, !.paging_enabled = 1]

RECURSIVE LastPool(_, _)
\* The loop of register_pool: the pool whose vm_pool_next is NULL.
LastPool(m, temp) ==
    IF m.vm_pool_next[temp] = NULL THEN temp
    ELSE LastPool(m, m.vm_pool_next[temp])

\* PageTable::register_pool.
register_pool(m, _vm_pool) ==
    IF m.vm_pool_head = NULL
    THEN [m EXCEPT !.vm_pool_head = _vm_pool]
    ELSE [m EXCEPT !.vm_pool_next[LastPool(m, m.vm_pool_head)] = _vm_pool]

\* The static ContFramePool::release_frames in machine m: its outcomes.
release_frames(m, _first_frame_no) ==
    LET temp == FindPool(head, _first_frame_no)
    IN  IF temp = NULL THEN {Halt(m)}
        ELSE { [m EXCEPT !.bitmap[temp] = r.bitmap,
                         !.nFreeFrames[temp] = r.nFreeFrames,
                         !.halted = r.fatal]
               : r \in release_frame_range_of(m.bitmap[temp],
                                              m.nFreeFrames[temp], temp,
                                              _first_frame_no) }

\* PageTable::free_page of page table t for the page of _page_no.
free_page(m, t, _page_no) ==
    LET page_dir_ind == DirInd(_page_no.page)
        page_table_ind == TableInd(_page_no.page)
        page_table == TablePage(page_dir_ind)
    IN  UNION { IF r.m.halted THEN {r.m}
                ELSE UNION { { IF m3.halted THEN m3 ELSE load(m3, t)
                               : m3 \in Store(m2, page_table, page_table_ind,
                                              page_table_ind,
                                              [kind |-> "or2", v |-> 0],
                                              MaxNesting) }
                             : m2 \in release_frames(r.m, FrameOf(r.w)) }
                : r \in LoadWord(m, page_table, page_table_ind, MaxNesting) }

\* ---------------------------------------------------------------- VMPool

\* The page table every VM pool is constructed with.
FirstPageTable == 1

\* An unsigned long that only ever changes by whole words of memory, kept as the
\* quotient and the remainder of its division by PAGE_SIZE: available_memory.
Avail(x) == [pages |-> x \div PAGE_SIZE, bytes |-> x % PAGE_SIZE]

\* The number of pages of the 32-bit address space: Avail wraps around there.
AddressPages == ENTRIES_PER_PAGE * ENTRIES_PER_PAGE

\* av - x and av + x in 32 bits.
AvailMinus(av, x) ==
    LET b == av.bytes - (x % PAGE_SIZE)
    IN  [pages |-> (av.pages - (x \div PAGE_SIZE) - (IF b < 0 THEN 1 ELSE 0))
                       % AddressPages,
         bytes |-> b % PAGE_SIZE]

AvailPlus(av, x) ==
    LET b == av.bytes + (x % PAGE_SIZE)
    IN  [pages |-> (av.pages + (x \div PAGE_SIZE) + (b \div PAGE_SIZE))
                       % AddressPages,
         bytes |-> b % PAGE_SIZE]

\* x > av.
Exceeds(x, av) ==
    \/ x \div PAGE_SIZE > av.pages
    \/ x \div PAGE_SIZE = av.pages /\ x % PAGE_SIZE > av.bytes

\* The page of the region directory of pool v (vm_regions) and the words of
\* vm_regions[ind].base_address and vm_regions[ind].length in it.
RegionsPage(m, v) == m.base_address[v] \div PAGE_SIZE

BaseWord(ind) == 2 * ind

LengthWord(ind) == 2 * ind + 1

\* The constructor with lines 59 and 61-65 exchanged: the directory is written
\* before the pool is registered.
VMPool_WriteFirst(m, v, _base_address, _size, garbage) ==
    LET m1 == [m EXCEPT !.base_address[v] = _base_address,
                        !.size[v] = _size,
                        !.vm_pool_next[v] = NULL,
                        !.num_regions[v] = 0,
                        !.available_memory[v] = Avail(garbage)]
    IN  UNION { { IF m3.halted THEN m3
                  ELSE [register_pool(m3, v) EXCEPT
                           !.num_regions[v] = @ + 1,
                           !.available_memory[v] = AvailMinus(@, PAGE_SIZE)]
                  : m3 \in Store(m2, RegionsPage(m1, v), LengthWord(0),
                                 LengthWord(0), Const(PAGE_SIZE), MaxNesting) }
                : m2 \in Store(m1, RegionsPage(m1, v), BaseWord(0), BaseWord(0),
                               Const(_base_address), MaxNesting) }

\* The constructor of pool v: lines 47-72.  available_memory is never given a
\* value before PAGE_SIZE is taken off it: it starts as garbage.
VMPool(m, v, _base_address, _size, garbage) ==
    LET m1 == register_pool([m EXCEPT !.base_address[v] = _base_address,
                                      !.size[v] = _size,
                                      !.vm_pool_next[v] = NULL,
                                      !.num_regions[v] = 0,
                                      !.available_memory[v] = Avail(garbage)],
                            v)
    IN  UNION { { IF m3.halted THEN m3
                  ELSE [m3 EXCEPT !.num_regions[v] = @ + 1,
                                  !.available_memory[v] =
                                      AvailMinus(@, PAGE_SIZE)]
                  : m3 \in Store(m2, RegionsPage(m1, v), LengthWord(0),
                                 LengthWord(0), Const(PAGE_SIZE), MaxNesting) }
                : m2 \in Store(m1, RegionsPage(m1, v), BaseWord(0), BaseWord(0),
                               Const(_base_address), MaxNesting) }

\* The slip of line 80 that drops the page a remainder needs.
pages_ct_Floor(_size) == _size \div PAGE_SIZE

\* The number of pages allocate takes for _size bytes: line 80.
pages_ct(_size) ==
    (_size \div PAGE_SIZE) + (IF _size % PAGE_SIZE > 0 THEN 1 ELSE 0)

\* VMPool::allocate of pool v: the outcomes, each with the address returned.
allocate(m, v, _size) ==
    IF Exceeds(_size, m.available_memory[v])
    THEN { [m |-> Halt(m), w |-> 0] }
    ELSE
    LET n  == m.num_regions[v]
        pg == RegionsPage(m, v)
    IN  UNION { UNION { UNION { UNION {
          IF m4.halted THEN { [m |-> m4, w |-> 0] }
          ELSE LoadWord([m4 EXCEPT !.available_memory[v] =
                               AvailMinus(@, pages_ct(_size) * PAGE_SIZE),
                               !.num_regions[v] = @ + 1],
                    pg, BaseWord(n), MaxNesting)
          : m4 \in Store(m3, pg, LengthWord(n), LengthWord(n),
                         Const(pages_ct(_size) * PAGE_SIZE), MaxNesting) }
          : m3 \in Store(l.m, pg, BaseWord(n), BaseWord(n),
                         Const(b.w + l.w), MaxNesting) }
          : l \in LoadWord(b.m, pg, LengthWord(n - 1), MaxNesting) }
          : b \in LoadWord(m, pg, BaseWord(n - 1), MaxNesting) }

RECURSIVE FindRegion(_, _, _, _, _)
\* The first loop of release, from index ind: the outcomes, each with the value
\* of region_no (in w) when the loop is left.
FindRegion(m, v, _start_address, ind, region_no) ==
    IF m.halted \/ ind >= m.num_regions[v]
    THEN { [m |-> m, w |-> region_no] }
    ELSE UNION { FindRegion(b.m, v, _start_address, ind + 1,
                            IF b.w = _start_address THEN ind ELSE region_no)
                 : b \in LoadWord(m, RegionsPage(m, v), BaseWord(ind), MaxNesting) }

RECURSIVE FreePages(_, _, _)
\* The while loop of release: free_page for page_ct pages from a page on.
FreePages(m, page, page_ct) ==
    IF m.halted \/ page_ct <= 0 THEN {m}
    ELSE UNION { FreePages(m2, page + 1, page_ct - 1)
                 : m2 \in free_page(m, FirstPageTable, Addr(page, 0)) }

RECURSIVE ShiftRegions(_, _, _)
\* The second for loop of release: vm_regions[ind] = vm_regions[ind + 1] from
\* index ind up to num_regions - 1.
ShiftRegions(m, v, ind) ==
    IF m.halted \/ ind >= m.num_regions[v] THEN {m}
    ELSE LET pg == RegionsPage(m, v)
         IN  UNION { UNION { UNION { UNION {
               ShiftRegions(m4, v, ind + 1)
               : m4 \in Store(m3, pg, LengthWord(ind), LengthWord(ind),
                              Const(l.w), MaxNesting) }
               : m3 \in Store(l.m, pg, BaseWord(ind), BaseWord(ind),
                              Const(b.w), MaxNesting) }
               : l \in LoadWord(b.m, pg, LengthWord(ind + 1), MaxNesting) }
               : b \in LoadWord(m, pg, BaseWord(ind + 1), MaxNesting) }

\* The end of release, lines 113-118: the regions after region_no move down one
\* slot, the length then found in slot region_no is added to available_memory.
\* The header that declares num_regions is not among the sources: when it is
\* unsigned the comparison ind < num_regions is false for ind = -1.
RemoveRegion(m, v, region_no, unsigned) ==
    UNION { { IF a.m.halted THEN a.m
              ELSE [a.m EXCEPT !.available_memory[v] = AvailPlus(@, a.w),
                               !.num_regions[v] = @ - 1]
              : a \in LoadWord(m2, RegionsPage(m, v), LengthWord(region_no),
                           MaxNesting) }
            : m2 \in IF unsigned /\ region_no < 0 THEN {m}
                     ELSE ShiftRegions(m, v, region_no) }

\* The middle of release, lines 104-112: free_page for every page of the
\* region in slot region_no.
ReleasePages(m, v, _start_address, region_no) ==
    UNION { FreePages(l.m, _start_address \div PAGE_SIZE, l.w \div PAGE_SIZE)
            : l \in LoadWord(m, RegionsPage(m, v), LengthWord(region_no),
                         MaxNesting) }

\* VMPool::release of pool v.
release(m, v, _start_address, unsigned) ==
    UNION { UNION { RemoveRegion(m2, v, f.w, unsigned)
                    : m2 \in ReleasePages(f.m, v, _start_address, f.w) }
            : f \in FindRegion(m, v, _start_address, 1, 0 - 1) }

\* ------------------------------------------------------- the kernel at boot

\* The first frames of the kernel pool and of the process pool: the kernel pool
\* lies inside the first ENTRIES_PER_PAGE frames, the process pool after them.
KERNEL_POOL_START_FRAME == ENTRIES_PER_PAGE \div 2

PROCESS_POOL_START_FRAME == ENTRIES_PER_PAGE

\* The sizes init_paging may be given for the shared region: the 4 MB that one
\* page table maps, half of that and twice that.
SharedSizes == { k * (ENTRIES_PER_PAGE \div 2) * PAGE_SIZE : k \in {1, 2, 4} }

\* The frames whose words the model keeps track of: frame 0 and the frames of
\* the two pools.
TrackedFrames ==
    {0} \cup { KERNEL_POOL_START_FRAME + k : k \in 0 .. PoolFrames - 1 }
        \cup { PROCESS_POOL_START_FRAME + k : k \in 0 .. 2 * PoolFrames - 1 }

\* The number of operations of the paging unit and of the VM pools in one run.
MaxOps == 6

\* The state after the kernel has built its two pools, the management frame of
\* the process pool taken from the kernel pool, and has called init_paging with
\* the size S: the pools, and the machine when memory holds image g.
BootPools ==
    /\ base_frame_no = <<KERNEL_POOL_START_FRAME, PROCESS_POOL_START_FRAME>>
    /\ nframes = <<PoolFrames, 2 * PoolFrames>>
    /\ head = 1
    /\ next = [p \in Pools |-> IF p = 1 THEN 2 ELSE NULL]
    /\ DEBUG = FALSE
    /\ client = kernel_mem_pool
    /\ allocs = {}
    /\ strict = TRUE

BootMachine(g) ==
    LET p1 == ContFramePool(KERNEL_POOL_START_FRAME, PoolFrames, 0)
        info == get_frames_of(p1.bitmap, p1.nFreeFrames, kernel_mem_pool, 1)
        p2 == ContFramePool(PROCESS_POOL_START_FRAME, 2 * PoolFrames,
                            info.output)
    IN  [mem |-> [f \in TrackedFrames |-> Fresh(g)],
         bitmap |-> <<info.bitmap, p2.bitmap>>,
         nFreeFrames |-> <<info.nFreeFrames, p2.nFreeFrames>>,
         halted |-> FALSE, cr0 |-> FALSE, cr3 |-> NULL,
         paging_enabled |-> 0, current_page_table |-> NULL,
         vm_pool_head |-> NULL,
         page_directory |-> [t \in PageTables |-> NULL],
         handled |-> {},
         base_address |-> [v \in VMPools |-> 0],
         size |-> [v \in VMPools |-> 0],
         vm_pool_next |-> [v \in VMPools |-> NULL],
         num_regions |-> [v \in VMPools |-> 0],
         available_memory |-> [v \in VMPools |-> Avail(0)]]

\* The machine is m.
MachineIs(m) ==
    /\ mem = m.mem
    /\ bitmap = m.bitmap
    /\ nFreeFrames = m.nFreeFrames
    /\ halted = m.halted
    /\ cr0 = m.cr0
    /\ cr3 = m.cr3
    /\ paging_enabled = m.paging_enabled
    /\ current_page_table = m.current_page_table
    /\ vm_pool_head = m.vm_pool_head
    /\ page_directory = m.page_directory
    /\ handled = m.handled
    /\ base_address = m.base_address
    /\ size = m.size
    /\ vm_pool_next = m.vm_pool_next
    /\ num_regions = m.num_regions
    /\ available_memory = m.available_memory

InitPaging ==
    /\ BootPools
    /\ info_frame_no = <<0, KERNEL_POOL_START_FRAME + 1>>
    /\ shared_size \in SharedSizes
    /\ last = Call("init_paging", 0, shared_size, 0, 0, FALSE)
    /\ calls = 0
    /\ \E g \in MemoryImages : MachineIs(BootMachine(g))
    /\ NoScheduler

\* One operation was called and left the machine as m.
Done(m, call) ==
    /\ calls' = calls + 1
    /\ last' = [call EXCEPT !.fatal = m.halted]
    /\ mem' = m.mem
    /\ bitmap' = m.bitmap
    /\ nFreeFrames' = m.nFreeFrames
    /\ halted' = m.halted
    /\ cr0' = m.cr0
    /\ cr3' = m.cr3
    /\ paging_enabled' = m.paging_enabled
    /\ current_page_table' = m.current_page_table
    /\ vm_pool_head' = m.vm_pool_head
    /\ page_directory' = m.page_directory
    /\ handled' = m.handled
    /\ base_address' = m.base_address
    /\ size' = m.size
    /\ vm_pool_next' = m.vm_pool_next
    /\ num_regions' = m.num_regions
    /\ available_memory' = m.available_memory
    /\ UNCHANGED <<base_frame_no, nframes, info_frame_no, head, next, DEBUG,
                   client, allocs, strict, shared_size, schedVars>>

\* A call can be made: the kernel has not stopped at an assert.
Ready == ~halted /\ calls < MaxOps

\* new PageTable(): page table t is constructed.
ConstructPageTable(t) ==
    /\ Ready
    /\ page_directory[t] = NULL
    /\ \E m \in PageTable(Machine, t) :
         Done(m, Call("PageTable", t, 0, 0, 0, FALSE))

\* t.load().
LoadPageTable(t) ==
    /\ Ready
    /\ page_directory[t] # NULL
    /\ current_page_table # t
    /\ Done(load(Machine, t), Call("load", t, 0, 0, 0, FALSE))

\* PageTable::enable_paging(), once a page table is loaded.
EnablePaging ==
    /\ Ready
    /\ current_page_table # NULL
    /\ ~cr0
    /\ Done(enable_paging(Machine), Call("enable_paging", 0, 0, 0, 0, FALSE))

\* The base addresses and the size VM pools are constructed with: four pages
\* each, the first the last page under 512 MB for pool 1 and under 1 GB for
\* pool 2, so that the other pages have another directory entry than the first.
VMPoolBase(v) ==
    v * (ENTRIES_PER_PAGE \div 8) * ENTRIES_PER_PAGE * PAGE_SIZE - PAGE_SIZE

VMPoolSize == 4 * PAGE_SIZE

\* What the memory of a VMPool object may hold where available_memory lies:
\* nothing, a byte more than a page, three pages, and the size of the pool.
GarbageAvail == {0, PAGE_SIZE + 1, 3 * PAGE_SIZE, VMPoolSize}

\* new VMPool(base, size, process pool, first page table), paging enabled.
ConstructVMPool(v) ==
    /\ Ready
    /\ cr0
    /\ current_page_table = FirstPageTable
    /\ size[v] = 0
    /\ \A u \in VMPools : u < v => size[u] # 0
    /\ \E garbage \in GarbageAvail :
         \E m \in VMPool(Machine, v, VMPoolBase(v), VMPoolSize, garbage) :
           Done(m, Call("VMPool", v, VMPoolBase(v), VMPoolSize, 0, FALSE))

\* The linear addresses the kernel touches: the second, third and fourth page
\* of pool 1, the last byte before the pool, and the first and the second byte
\* after its last page.
Touched ==
    { AddrOf(VMPoolBase(1) + k * PAGE_SIZE) : k \in 1 .. 3 }
        \cup { AddrOf(VMPoolBase(1) - 1),
               AddrOf(VMPoolBase(1) + VMPoolSize),
               AddrOf(VMPoolBase(1) + VMPoolSize + 1) }

\* An access to a linear address whose page is not present: the processor calls
\* handle_fault with bit 0 of the error code clear.  The call is recorded with
\* n = 1 when the directory entry for the address was present.
HandleFault(a) ==
    /\ Ready
    /\ cr0
    /\ \E t \in Translate(Machine, a.page) :
         /\ t.frame = NoFrame
         /\ \E m \in handle_fault(t.m, a, MaxNesting - 1) :
              Done(m, Call("handle_fault", current_page_table, a,
                           IF DirPresent(Machine, a) THEN 1 ELSE 0, 0, FALSE))

\* current_page_table->free_page(a) for a page of pool 1.
FreePage(a) ==
    /\ Ready
    /\ cr0
    /\ a.off = 0
    /\ \E m \in free_page(Machine, current_page_table, a) :
         Done(m, Call("free_page", current_page_table, a, 0, 0, FALSE))

\* The sizes allocate is called with: one byte, and one byte more than a page.
AllocSizes == {1, PAGE_SIZE + 1}

\* v.allocate(_size), for a pool whose directory holds a region: a pool whose
\* num_regions has fallen to 0 is not called any more.
Allocate(v, _size) ==
    /\ Ready
    /\ num_regions[v] > 0
    /\ \E r \in allocate(Machine, v, _size) :
         Done(r.m, Call("allocate", v, _size, 0, r.w, FALSE))

\* The addresses release is called with: the page boundaries of the pool.
ReleaseArgs(v) == { VMPoolBase(v) + k * PAGE_SIZE : k \in 0 .. 3 }

\* v.release(_start_address), for a pool whose directory holds a region.  The
\* header that declares num_regions is not among the sources: both signednesses
\* are followed.
Release(v, _start_address) ==
    /\ Ready
    /\ num_regions[v] > 0
    /\ \E unsigned \in BOOLEAN :
         \E m \in release(Machine, v, _start_address, unsigned) :
           Done(m, Call("release", v, _start_address, 0, 0, FALSE))

NextPaging ==
    \/ \E t \in PageTables : ConstructPageTable(t)
    \/ \E t \in PageTables : LoadPageTable(t)
    \/ EnablePaging
    \/ \E v \in VMPools : ConstructVMPool(v)
    \/ \E a \in Touched : HandleFault(a)
    \/ \E a \in Touched : FreePage(a)

SpecPaging == InitPaging /\ [][NextPaging]_vars

\* The machines after the kernel has constructed the first page table with a
\* shared region of 4 MB, loaded it, enabled paging and constructed VM pool 1.
Booted ==
    UNION { UNION { VMPool(enable_paging(load(m, FirstPageTable)), 1,
                           VMPoolBase(1), VMPoolSize, garbage)
                    : garbage \in GarbageAvail }
            : m \in UNION { PageTable(BootMachine(g), FirstPageTable)
                            : g \in MemoryImages } }

InitVM ==
    /\ BootPools
    /\ info_frame_no = <<0, KERNEL_POOL_START_FRAME + 1>>
    /\ shared_size = ENTRIES_PER_PAGE * PAGE_SIZE
    /\ last = Call("VMPool", 1, VMPoolBase(1), VMPoolSize, 0, FALSE)
    /\ calls = 0
    /\ \E m \in Booted : ~m.halted /\ MachineIs(m)
    /\ NoScheduler

NextVM ==
    \/ \E s \in AllocSizes : Allocate(1, s)
    \/ \E a \in ReleaseArgs(1) : Release(1, a)
    \/ \E a \in ReleaseArgs(1) : HandleFault(AddrOf(a))

SpecVM == InitVM /\ [][NextVM]_vars

\* ------------------------------------------------ reading the paging state

RECURSIVE PoolsFrom(_)
\* The pools of the list that starts at pool temp.
PoolsFrom(temp) ==
    IF temp = NULL THEN {} ELSE {temp} \cup PoolsFrom(vm_pool_next[temp])

\* The registered VM pools.
Registered == PoolsFrom(vm_pool_head)

\* The address lies in the window [base, base + size] of pool v.
InWindow(v, a) ==
    ~Below(a, base_address[v]) /\ ~Above(a, base_address[v] + size[v])

\* C11: when handle_fault returns from a not-present fault at an address inside
\* a registered VM pool, the directory entry and the table entry for that
\* address are both present, so the access does not fault again, whether or
\* not the directory entry was present when the fault was taken.
C11_NoRefault ==
    [][(/\ Called("handle_fault") /\ ~halted'
        /\ \E v \in Registered : InWindow(v, last'.arg)) =>
            Mapped(Machine', last'.arg)]_vars

\* C11's cases: handle_fault has returned from a fault inside pool 1 whose
\* directory entry was missing, and from one whose directory entry was present.
C11_Witness ==
    /\ last.op = "handle_fault" /\ ~halted /\ last.n = 0
    /\ InWindow(1, last.arg) /\ 1 \in Registered
    /\ Mapped(Machine, last.arg)

C11_WitnessPresent ==
    /\ last.op = "handle_fault" /\ ~halted /\ last.n = 1
    /\ InWindow(1, last.arg) /\ 1 \in Registered
    /\ Mapped(Machine, last.arg)

\* C12: with a VM pool registered, a not-present fault at an address outside
\* the window of every registered pool is fatal: handle_fault takes no frame
\* from a frame pool and writes no directory or table entry.
C12_OutsideRejected ==
    [][(/\ Called("handle_fault")
        /\ Registered # {}
        /\ \A v \in Registered : ~InWindow(v, last'.arg)) =>
            (/\ halted'
             /\ nFreeFrames' = nFreeFrames
             /\ bitmap' = bitmap
             /\ mem' = mem)]_vars

\* The words of the region directory of pool v read at word index w in
\* machine m.
RegionWords(m, v, w) ==
    { r.w : r \in LoadWord(m, RegionsPage(m, v), w, 0) }

\* The address lies in one of the regions pool v holds in its directory.
InRegion(v, a) ==
    \E ind \in 0 .. num_regions[v] - 1 :
      \E b \in RegionWords(Machine, v, BaseWord(ind)),
         l \in RegionWords(Machine, v, LengthWord(ind)) :
        ~Below(a, b) /\ Below(a, b + l)

\* C13: a fault at an address inside the window of a registered pool and in
\* no region any registered pool holds is not serviced: no frame is taken.
C13_OnlyAllocatedServiced ==
    [][(/\ Called("handle_fault")
        /\ \E v \in Registered : InWindow(v, last'.arg)
        /\ \A v \in Registered : ~InRegion(v, last'.arg)) =>
            (nFreeFrames' = nFreeFrames /\ bitmap' = bitmap)]_vars

\* The walk for a page through the directory of page table t.
TranslateBy(m, t, page) ==
    Translate([m EXCEPT !.cr0 = TRUE, !.cr3 = m.page_directory[t]], page)

\* C14: the directory and the table the constructor of a page table builds
\* map every page of the shared region to the frame of the same number.
C14_IdentityMapped ==
    [][(Called("PageTable") /\ ~halted') =>
          \A i \in 0 .. (shared_size \div PAGE_SIZE) - 1 :
            \A w \in TranslateBy(Machine', last'.pool, i) : w.frame = i]_vars

\* The table entry of page table t for the page of address a in machine m.
TableEntries(m, t, a) ==
    LET m1 == [m EXCEPT !.cr0 = TRUE, !.cr3 = m.page_directory[t]]
    IN  UNION { { e.w : e \in PRead(m1, FrameOf(d.w), TableInd(a.page)) }
                : d \in { x \in PRead(m1, m1.cr3, DirInd(a.page)) :
                            Present(x.w) } }

\* C15: free_page of a mapped page leaves its table entry not present, with
\* the frame number in it unchanged: the next access to the page faults.
C15_FreePageUnmaps ==
    [][(/\ Called("free_page") /\ ~halted'
        /\ Mapped(Machine, last'.arg)) =>
            (/\ ~Mapped(Machine', last'.arg)
             /\ \A e \in TableEntries(Machine', last'.pool, last'.arg) :
                  /\ ~Present(e)
                  /\ \E o \in TableEntries(Machine, last'.pool, last'.arg) :
                       FrameOf(o) = FrameOf(e))]_vars

\* C16: once enable_paging has been called the paging-enabled state of the
\* class stays set, whatever is called afterwards.
C16_PagingStaysEnabled ==
    [][paging_enabled = 1 => paging_enabled' = 1]_vars

\* The length allocate gives a region of _size bytes: _size rounded up to
\* whole pages.
RoundedUp(_size) == ((_size + PAGE_SIZE - 1) \div PAGE_SIZE) * PAGE_SIZE

\* Region ind of pool v is the same in the machine before and after the step.
RegionKept(v, ind) ==
    /\ RegionWords(Machine', v, BaseWord(ind))
         = RegionWords(Machine, v, BaseWord(ind))
    /\ RegionWords(Machine', v, LengthWord(ind))
         = RegionWords(Machine, v, LengthWord(ind))

\* C17: allocate fails when the size exceeds the available space; otherwise it
\* appends one region that starts where the last region ends and is the size
\* rounded up to whole pages long, takes that length off the available space,
\* counts one region more and returns the base of the new region.
C17_AllocateAppends ==
    [][Called("allocate") =>
        LET v == last'.pool
            n == num_regions[v]
        IN  IF Exceeds(last'.arg, available_memory[v])
            THEN halted'
            ELSE /\ ~halted'
                 /\ num_regions'[v] = n + 1
                 /\ available_memory'[v] =
                      AvailMinus(available_memory[v], RoundedUp(last'.arg))
                 /\ RegionWords(Machine', v, BaseWord(n)) =
                      { b + l : b \in RegionWords(Machine, v, BaseWord(n - 1)),
                                l \in RegionWords(Machine, v, LengthWord(n - 1)) }
                 /\ RegionWords(Machine', v, LengthWord(n)) =
                      { RoundedUp(last'.arg) }
                 /\ RegionWords(Machine', v, BaseWord(n)) = { last'.ret }
                 /\ \A ind \in 0 .. n - 1 : RegionKept(v, ind)]_vars

\* C17's cases: allocate has appended a region of two pages behind region 0,
\* and allocate has failed for a size above the available space.
C17_Witness ==
    /\ last.op = "allocate" /\ ~halted
    /\ last.arg = PAGE_SIZE + 1
    /\ last.ret = VMPoolBase(1) + PAGE_SIZE
    /\ num_regions[1] = 2
    /\ RegionWords(Machine, 1, LengthWord(1)) = { 2 * PAGE_SIZE }

C17_WitnessFails ==
    /\ last.op = "allocate" /\ halted
    /\ num_regions[1] = 2

\* The length region ind of pool v has in its directory.
RegionLength(v, ind) ==
    CHOOSE l \in RegionWords(Machine, v, LengthWord(ind)) : TRUE

RECURSIVE SumLengths(_, _)
\* The sum of the lengths of the regions 0 .. n - 1 of pool v.
SumLengths(v, n) ==
    IF n <= 0 THEN 0 ELSE RegionLength(v, n - 1) + SumLengths(v, n - 1)

\* C18: after the construction of a pool of size S and allocate and release
\* calls that did not fail, the lengths of the regions of its directory sum
\* to at most S and the available space is S less that sum.
C18_SpaceAccounted ==
    \A v \in VMPools :
      (size[v] # 0 /\ ~halted) =>
        /\ SumLengths(v, num_regions[v]) <= size[v]
        /\ available_memory[v] =
             Avail(size[v] - SumLengths(v, num_regions[v]))

\* The indices from 1 on of the regions of pool v whose base is address a.
RegionsAt(v, a) ==
    { ind \in 1 .. num_regions[v] - 1 :
        a \in RegionWords(Machine, v, BaseWord(ind)) }

\* C19: release with an address that is the base of no region from index 1 on
\* fails: no page is freed, no region is removed, the number of regions and
\* the available space stay as they are.
C19_ReleaseNoMatchFails ==
    [][(Called("release") /\ RegionsAt(last'.pool, last'.arg) = {}) =>
        LET v == last'.pool
        IN  /\ halted'
            /\ nFreeFrames' = nFreeFrames
            /\ bitmap' = bitmap
            /\ num_regions'[v] = num_regions[v]
            /\ available_memory'[v] = available_memory[v]
            /\ \A ind \in 0 .. num_regions[v] - 1 : RegionKept(v, ind)]_vars

\* C20: a release that does not fail gives the available space the length of
\* the region it released, the last one of the directory or not.
C20_ReleaseReturnsLength ==
    [][(Called("release") /\ ~halted'
        /\ RegionsAt(last'.pool, last'.arg) # {}) =>
        LET v == last'.pool
        IN  \E ind \in RegionsAt(v, last'.arg) :
              available_memory'[v] =
                AvailPlus(available_memory[v], RegionLength(v, ind))]_vars

\* ------------------------------------------------- the page table of MP3

\* In MP3 the directory and every table are frames of the kernel pool, inside
\* the identity-mapped 4 MB: the constructor and the handler reach them at
\* their physical addresses and raise no fault of their own.
NoNesting == 0

\* The constructor of page table t in MP3: lines 27-63.
PageTable_MP3(m, t) ==
    LET num_shared_frames == shared_size \div PAGE_SIZE
        dir == GetFrame([m EXCEPT !.paging_enabled = 0], kernel_mem_pool)
        m1  == [dir.m EXCEPT !.page_directory[t] = dir.frame]
        page_table == GetFrame(m1, kernel_mem_pool)
    IN  UNION { UNION { Store(m3, page_table.frame, 0, num_shared_frames - 1,
                              [kind |-> "ident", v |-> 0], NoNesting)
                        : m3 \in Store(m2, dir.frame, 1, num_shared_frames - 1,
                                       [kind |-> "or2", v |-> 0], NoNesting) }
                : m2 \in Store(page_table.m, dir.frame, 0, 0,
                               Const(page_table.frame * PAGE_SIZE + 3),
                               NoNesting) }

\* handle_fault of MP3, the directory entry not present: lines 108-120.  The
\* new table is filled with the not-present pattern and no page is mapped.
NewTable_MP3(m, fault_addr) ==
    LET frame == GetFrame(m, kernel_mem_pool)
        page_dir_ind == DirInd(fault_addr.page)
    IN  UNION { UNION { Store(d.m, FrameOf(d.w), 0, ENTRIES_PER_PAGE - 1,
                              Const(4), NoNesting)
                        : d \in LoadWord(m2, m.cr3, page_dir_ind, NoNesting) }
                : m2 \in Store(frame.m, m.cr3, page_dir_ind, page_dir_ind,
                               Const(frame.frame * PAGE_SIZE + 3), NoNesting) }

\* handle_fault of MP3, the directory entry pde present: lines 123-130.
NewPage_MP3(m, fault_addr, pde) ==
    LET frame == GetFrame(m, process_mem_pool)
        page_table_ind == TableInd(fault_addr.page)
    IN  Store(frame.m, FrameOf(pde), page_table_ind, page_table_ind,
              Const(frame.frame * PAGE_SIZE + 3), NoNesting)

\* PageTable::handle_fault of MP3 for a fault on a page that is not present.
handle_fault_MP3(m, fault_addr) ==
    UNION { IF r.m.halted THEN {r.m}
            ELSE IF ~Present(r.w)
            THEN NewTable_MP3(r.m, fault_addr)
            ELSE NewPage_MP3(r.m, fault_addr, r.w)
            : r \in LoadWord(m, m.cr3, DirInd(fault_addr.page), NoNesting) }

\* The kernel of MP3 after init_paging with a shared region of 4 MB.
InitMP3 ==
    /\ BootPools
    /\ info_frame_no = <<0, KERNEL_POOL_START_FRAME + 1>>
    /\ shared_size = ENTRIES_PER_PAGE * PAGE_SIZE
    /\ last = Call("init_paging", 0, shared_size, 0, 0, FALSE)
    /\ calls = 0
    /\ \E g \in MemoryImages : MachineIs(BootMachine(g))
    /\ NoScheduler

\* new PageTable() in MP3.
ConstructPageTable_MP3(t) ==
    /\ Ready
    /\ page_directory[t] = NULL
    /\ \E m \in PageTable_MP3(Machine, t) :
         Done(m, Call("PageTable", t, 0, 0, 0, FALSE))

\* A not-present fault at address a in MP3, serviced by handle_fault.
HandleFault_MP3(a) ==
    /\ Ready
    /\ cr0
    /\ \E t \in Translate(Machine, a.page) :
         /\ t.frame = NoFrame
         /\ \E m \in handle_fault_MP3(t.m, a) :
              Done(m, Call("handle_fault", current_page_table, a,
                           IF DirPresent(Machine, a) THEN 1 ELSE 0, 0, FALSE))

NextMP3 ==
    \/ \E t \in PageTables : ConstructPageTable_MP3(t)
    \/ \E t \in PageTables : LoadPageTable(t)
    \/ EnablePaging
    \/ \E a \in Touched : HandleFault_MP3(a)

SpecMP3 == InitMP3 /\ [][NextMP3]_vars

\* ------------------------------------------- the directory of a VM pool

\* Slot ind of the directory of pool v in machine m holds base b, length l.
RegionIs(m, v, ind, b, l) ==
    /\ RegionWords(m, v, BaseWord(ind)) = {b}
    /\ RegionWords(m, v, LengthWord(ind)) = {l}

\* The base of pool 1 and k pages.
PageOfPool(k) == VMPoolBase(1) + k * PAGE_SIZE

\* Three regions of one page were allocated in pool 1 and the middle one has
\* just been released: the directory holds the first and the third.
MiddleReleased ==
    /\ last.op = "release" /\ ~halted
    /\ last.pool = 1 /\ last.arg = PageOfPool(2)
    /\ num_regions[1] = 3
    /\ RegionIs(Machine, 1, 1, PageOfPool(1), PAGE_SIZE)
    /\ RegionIs(Machine, 1, 2, PageOfPool(3), PAGE_SIZE)

\* C21: after three regions are allocated and the middle one is released, a
\* new region of the same size gets the base of the released region, and the
\* directory holds the two remaining regions and the new one in slots 1 to 3.
C21_SpaceReused ==
    [][(/\ MiddleReleased
        /\ Called("allocate") /\ last'.arg = 1 /\ ~halted') =>
            (/\ last'.ret = PageOfPool(2)
             /\ num_regions'[1] = 4
             /\ RegionIs(Machine', 1, 1, PageOfPool(1), PAGE_SIZE)
             /\ RegionIs(Machine', 1, 2, PageOfPool(3), PAGE_SIZE)
             /\ RegionIs(Machine', 1, 3, PageOfPool(2), PAGE_SIZE))]_vars

\* The addresses is_legitimate is asked about: around both ends of the window
\* of pool v and inside it.
LegitArgs(v) ==
    { base_address[v] + d : d \in {0 - 1, 0, 1, PAGE_SIZE} }
        \cup { base_address[v] + size[v] + d : d \in {0 - 1, 0, 1, PAGE_SIZE} }

\* C22: is_legitimate is true exactly for the addresses from base_address to
\* base_address + size, both ends included, whatever regions are allocated.
C22_LegitimateIsWindow ==
    \A v \in VMPools :
      size[v] # 0 =>
        \A x \in LegitArgs(v) :
          is_legitimate(Machine, v, AddrOf(x)) =
            (base_address[v] <= x /\ x <= base_address[v] + size[v])

\* C22's case: pool 1 holds three regions, the address base_address + size is
\* legitimate and the next one is not.
C22_Witness ==
    /\ num_regions[1] = 3 /\ ~halted
    /\ is_legitimate(Machine, 1, AddrOf(base_address[1] + size[1])) = TRUE
    /\ is_legitimate(Machine, 1, AddrOf(base_address[1] + size[1] + 1)) = FALSE
    /\ is_legitimate(Machine, 1, AddrOf(base_address[1] - 1)) = FALSE

\* C23: right after the construction of a pool its directory holds one region,
\* region 0 = (base_address, one page), and the available space is the size
\* of the pool less one page.
C23_ConstructedPool ==
    [][(Called("VMPool") /\ ~halted') =>
        LET v == last'.pool
        IN  /\ num_regions'[v] = 1
            /\ RegionIs(Machine', v, 0, last'.arg, PAGE_SIZE)
            /\ available_memory'[v] = Avail(last'.n - PAGE_SIZE)]_vars

\* ------------------------------------------------ tables and directories

\* The frames the directory entry for address a names in machine m.
TableFrames(m, a) ==
    { FrameOf(d.w) : d \in PRead(m, m.cr3, DirInd(a.page)) }

\* The words entry i of frame f may hold in machine m.
Words(m, f, i) == { e.w : e \in PRead(m, f, i) }

\* The not-present pattern of a table entry: the user bit alone.
NotPresentPattern == 4

\* C24: when handle_fault has made the directory entry for a missing page
\* table, all entries of the new table but the one of the faulting address
\* hold the not-present pattern, and that one is present.
C24_NewTableInitialised ==
    [][(Called("handle_fault") /\ last'.n = 0 /\ ~halted') =>
        \A f \in TableFrames(Machine', last'.arg) :
          \A i \in 0 .. ENTRIES_PER_PAGE - 1 :
            \A w \in Words(Machine', f, i) :
              IF i = TableInd(last'.arg.page)
              THEN Present(w)
              ELSE w = NotPresentPattern]_vars

\* C25: one fault takes two frames of the process pool when the directory
\* entry was not present and one when it was, takes nothing from the kernel
\* pool, and leaves the table entry of the address present and writable.
C25_FramesPerFault ==
    [][(Called("handle_fault") /\ ~halted') =>
        /\ nFreeFrames'[process_mem_pool] =
             nFreeFrames[process_mem_pool] - (IF last'.n = 0 THEN 2 ELSE 1)
        /\ nFreeFrames'[kernel_mem_pool] = nFreeFrames[kernel_mem_pool]
        /\ bitmap'[kernel_mem_pool] = bitmap[kernel_mem_pool]
        /\ \A e \in TableEntries(Machine', last'.pool, last'.arg) :
             e % 4 = 3]_vars

\* The directory index the linear addresses 0xFFFFF000 and
\* (0x3FF << 22) | (d << 12) go through.
RecursiveIndex == DirInd(DirectoryPage)

\* C26: whatever the size of the shared region, the directory entry the
\* constructor points at the directory frame itself is entry 1023, the one
\* handle_fault and free_page reach the directory and the tables through.
C26_SelfReferenceAt1023 ==
    [][(Called("PageTable") /\ ~halted') =>
        LET t == last'.pool
        IN  Words(Machine', page_directory'[t], RecursiveIndex) =
              { page_directory'[t] * PAGE_SIZE + 3 }]_vars

\* C27: right after the construction of a page table every directory entry
\* but entry 0 and the self-referential entry is not present and writable,
\* whatever the frame of the directory held before.
C27_DirectoryNotPresent ==
    [][(Called("PageTable") /\ ~halted') =>
        LET t == last'.pool
            self == (shared_size \div PAGE_SIZE) - 1
        IN  \A i \in 1 .. ENTRIES_PER_PAGE - 1 :
              i # self =>
                \A w \in Words(Machine', page_directory'[t], i) :
                  ~Present(w) /\ (w \div 2) % 2 = 1]_vars

\* The frames of the process pool the table entry for address a names in
\* machine m through page table t.
BackingFrames(m, t, a) ==
    { FrameOf(e) : e \in { x \in TableEntries(m, t, a) : Present(x) } }

\* C28: free_page of a page handle_fault mapped releases the frame of its
\* table entry: the frame is Free afterwards, the process pool counts one
\* free frame more, no other frame changes its state, and the page table
\* free_page was called on is the loaded one.
C28_FreePageReleasesFrame ==
    [][(/\ Called("free_page") /\ ~halted'
        /\ Mapped(Machine, last'.arg)) =>
        LET p == process_mem_pool
        IN  \A f \in BackingFrames(Machine, last'.pool, last'.arg) :
              /\ StateOfNext(p, f - base_frame_no[p]) = "Free"
              /\ nFreeFrames'[p] = nFreeFrames[p] + 1
              /\ \A i \in Frames(p) \ {f - base_frame_no[p]} :
                   StateOfNext(p, i) = StateOf(p, i)
              /\ bitmap'[kernel_mem_pool] = bitmap[kernel_mem_pool]
              /\ current_page_table' = last'.pool]_vars

\* The step removed slot k of the directory of pool v: one region less, the
\* slots below k as they were, every slot above k moved down by one.
RemovedSlot(v, k) ==
    /\ num_regions'[v] = num_regions[v] - 1
    /\ \A ind \in 0 .. k - 1 : RegionKept(v, ind)
    /\ \A j \in k + 1 .. num_regions[v] - 1 :
         /\ RegionWords(Machine', v, BaseWord(j - 1))
              = RegionWords(Machine, v, BaseWord(j))
         /\ RegionWords(Machine', v, LengthWord(j - 1))
              = RegionWords(Machine, v, LengthWord(j))

\* C29: a release that returns removes the region it was called for and no
\* other: the regions below it stay, the regions above it move down by one
\* slot, and region 0, the page of the directory, is never removed.
C29_ReleaseRemovesOne ==
    [][(Called("release") /\ ~halted') =>
        LET v == last'.pool
            at == RegionsAt(v, last'.arg)
        IN  /\ RegionKept(v, 0)
            /\ num_regions'[v] >= 1
            /\ at # {} =>
                 RemovedSlot(v, CHOOSE k \in at : \A x \in at : x <= k)]_vars

\* C30: in MP3 one invocation of handle_fault for a not-present fault leaves
\* the directory entry and the table entry of the address present, also when
\* the directory entry was missing: the access does not fault again.
C30_NoRefault_MP3 ==
    [][(Called("handle_fault") /\ ~halted') =>
          Mapped(Machine', last'.arg)]_vars

\* ------------------------------------------- the schedulers and the disk

\* The threads of the kernel, by ThreadId.
MaxThreads == 4

Threads == 1 .. MaxThreads

\* The scheduler classes: Scheduler and RRScheduler of MP5, Scheduler of MP6,
\* the one that knows the blocking disk.
Schedulers == {"Scheduler_MP5", "RRScheduler", "Scheduler_MP6"}

\* The timer frequency the constructor of RRScheduler sets.
hz == 5

\* The state the schedulers and the disk read and write, as one record.
Kernel ==
    [ready_queue |-> ready_queue, qsize |-> qsize,
     blocked_queue |-> blocked_queue,
     blocked_queue_size |-> blocked_queue_size,
     current_thread |-> current_thread,
     interrupts_enabled |-> interrupts_enabled, ticks |-> ticks]

\* Queue::enqueue and Queue::dequeue: a queue hands its threads out in the
\* order it was given them.  dequeue of an empty queue hands out no thread.
enqueue(q, t) == Append(q, t)

dequeue(q) ==
    IF q = << >> THEN [queue |-> q, thread |-> NULL]
    ELSE [queue |-> Tail(q), thread |-> Head(q)]

\* if (interrupts_enabled()) disable_interrupts(), and the opposite.
DisableInterrupts(k) == [k EXCEPT !.interrupts_enabled = FALSE]

EnableInterrupts(k) == [k EXCEPT !.interrupts_enabled = TRUE]

\* Thread::dispatch_to: the thread runs from now on.
dispatch_to(k, t) == [k EXCEPT !.current_thread = t]

\* BlockingDisk::check_blocked_thread_in_queue, is_ready the value
\* SimpleDisk::is_ready reads off the status register.
check_blocked_thread_in_queue(k, is_ready) ==
    is_ready /\ k.blocked_queue_size > 0

\* BlockingDisk::get_top_thread: the kernel after it and the thread returned.
get_top_thread(k) ==
    LET d == dequeue(k.blocked_queue)
    IN  [k |-> [k EXCEPT !.blocked_queue = d.queue,
                        !.blocked_queue_size = @ - 1],
         thread |-> d.thread]

\* The part of yield the three schedulers share: the ready queue is looked at.
yield_ready(k) ==
    IF k.qsize = 0 THEN k
    ELSE LET d == dequeue(k.ready_queue)
             k1 == [k EXCEPT !.ready_queue = d.queue, !.qsize = @ - 1]
         IN  dispatch_to(EnableInterrupts(k1), d.thread)

\* Scheduler::yield of MP6 that never asks the disk.
yield_NoDisk(k, is_ready) == yield_ready(DisableInterrupts(k))

\* Scheduler::yield of MP6.
yield(k, is_ready) ==
    LET k0 == DisableInterrupts(k)
    IN  IF check_blocked_thread_in_queue(k0, is_ready)
        THEN LET top == get_top_thread(EnableInterrupts(k0))
             IN  dispatch_to(top.k, top.thread)
        ELSE yield_ready(k0)

\* Scheduler::yield of MP5.
yield_MP5(k) == yield_ready(DisableInterrupts(k))

\* RRScheduler::yield: the tick count starts again when a thread is dispatched.
yield_RR(k) ==
    LET k0 == DisableInterrupts(k)
    IN  IF k0.qsize = 0 THEN k0 ELSE yield_ready([k0 EXCEPT !.ticks = 0])

\* resume and add of the three schedulers, the same code.
resume(k, _thread) ==
    LET k0 == DisableInterrupts(k)
    IN  EnableInterrupts([k0 EXCEPT !.ready_queue = enqueue(@, _thread),
                                    !.qsize = @ + 1])

add(k, _thread) == resume(k, _thread)

RECURSIVE TerminateLoop(_, _, _)
\* The loop of terminate from index on: each turn takes the head of the queue
\* and puts it back at the end unless it is _thread; the bound of the loop is
\* qsize, which a match lowers.
TerminateLoop(k, _thread, index) ==
    IF index >= k.qsize THEN k
    ELSE LET d == dequeue(k.ready_queue)
         IN  IF d.thread # _thread
             THEN TerminateLoop([k EXCEPT !.ready_queue = enqueue(d.queue, d.thread)],
                                _thread, index + 1)
             ELSE TerminateLoop([k EXCEPT !.ready_queue = d.queue,
                                          !.qsize = @ - 1],
                                _thread, index + 1)

\* terminate of the three schedulers, the same code.
terminate(k, _thread) ==
    EnableInterrupts(TerminateLoop(DisableInterrupts(k), _thread, 0))

\* BlockingDisk::wait_until_ready.
wait_until_ready(k, is_ready) ==
    yield([k EXCEPT !.blocked_queue = enqueue(@, k.current_thread),
                    !.blocked_queue_size = @ + 1],
          is_ready)

\* RRScheduler::handle_interrupt, the timer interrupt.
handle_interrupt(k) ==
    LET k1 == [k EXCEPT !.ticks = @ + 1]
    IN  IF k1.ticks >= hz
        THEN yield_RR(resume([k1 EXCEPT !.ticks = 0], k1.current_thread))
        ELSE k1

\* The threads in the ready queue and in the blocked queue.
Queued == { ready_queue[i] : i \in DOMAIN ready_queue }

Blocked == { blocked_queue[i] : i \in DOMAIN blocked_queue }

\* The kernel has built one of the schedulers, and the disk with it, and runs
\* its first thread.  The schedulers and the disk use no frame pool and no
\* paging: the pools are left without frames.
InitSched ==
    /\ BootPools
    /\ info_frame_no = <<0, KERNEL_POOL_START_FRAME + 1>>
    /\ nFreeFrames = <<0, 0>>
    /\ bitmap = << << >>, << >> >>
    /\ halted = FALSE
    /\ NoPaging
    /\ scheduler \in Schedulers
    /\ ready_queue = << >>
    /\ qsize = 0
    /\ blocked_queue = << >>
    /\ blocked_queue_size = 0
    /\ current_thread = 1
    /\ interrupts_enabled = TRUE
    /\ ticks = 0
    /\ waited = [t \in Threads |-> 0]
    /\ last = Call(scheduler, 0, 0, 0, 0, FALSE)
    /\ calls = 0

\* One operation of the scheduler or the disk was called and left the kernel
\* as k; the threads that wait for the disk keep the number of their call.
Scheduled(k, call) ==
    /\ calls' = calls + 1
    /\ last' = call
    /\ ready_queue' = k.ready_queue
    /\ qsize' = k.qsize
    /\ blocked_queue' = k.blocked_queue
    /\ blocked_queue_size' = k.blocked_queue_size
    /\ current_thread' = k.current_thread
    /\ interrupts_enabled' = k.interrupts_enabled
    /\ ticks' = k.ticks
    /\ waited' = [t \in Threads |->
                    IF \A i \in DOMAIN k.blocked_queue : k.blocked_queue[i] # t
                    THEN 0
                    ELSE IF t \in Blocked THEN waited[t] ELSE calls + 1]
    /\ UNCHANGED <<base_frame_no, nframes, info_frame_no, nFreeFrames, bitmap,
                   head, next, DEBUG, halted, client, allocs, strict,
                   pagingVars, vmVars, scheduler>>

\* The kernel adds a thread that is in no queue and does not run.
Add(t) ==
    /\ Ready
    /\ t # current_thread /\ t \notin Queued \cup Blocked
    /\ Scheduled(add(Kernel, t), Call("add", 0, t, 0, 0, FALSE))

\* The running thread puts itself in the ready queue, to pass the CPU on.
Resume ==
    /\ Ready
    /\ current_thread \notin Queued \cup Blocked
    /\ Scheduled(resume(Kernel, current_thread),
                 Call("resume", 0, current_thread, 0, 0, FALSE))

\* The running thread yields; with the scheduler of MP6 the disk is asked.
Yield ==
    /\ Ready
    /\ \E is_ready \in BOOLEAN :
         LET k == CASE scheduler = "Scheduler_MP5" -> yield_MP5(Kernel)
                    [] scheduler = "RRScheduler" -> yield_RR(Kernel)
                    [] OTHER -> yield(Kernel, is_ready)
         IN  Scheduled(k, Call("yield", 0, 0, IF is_ready THEN 1 ELSE 0,
                               k.current_thread, FALSE))

\* A thread is terminated: the running one, or one that waits for the CPU.
Terminate(t) ==
    /\ Ready
    /\ Scheduled(terminate(Kernel, t), Call("terminate", 0, t, 0, 0, FALSE))

\* The running thread waits for the disk of MP6.
WaitUntilReady ==
    /\ Ready
    /\ scheduler = "Scheduler_MP6"
    /\ current_thread \notin Queued \cup Blocked
    /\ \E is_ready \in BOOLEAN :
         LET k == wait_until_ready(Kernel, is_ready)
         IN  Scheduled(k, Call("wait_until_ready", 0, current_thread,
                               IF is_ready THEN 1 ELSE 0, k.current_thread,
                               FALSE))

\* The timer interrupts the running thread while interrupts are enabled.
HandleInterrupt ==
    /\ Ready
    /\ scheduler = "RRScheduler"
    /\ interrupts_enabled
    /\ current_thread \notin Queued
    /\ Scheduled(handle_interrupt(Kernel),
                 Call("handle_interrupt", 0, 0, 0, 0, FALSE))

NextSched ==
    \/ \E t \in Threads : Add(t)
    \/ Resume
    \/ Yield
    \/ \E t \in Threads : Terminate(t)
    \/ WaitUntilReady
    \/ HandleInterrupt

SpecSched == InitSched /\ [][NextSched]_vars

\* ------------------------------------------- the frame pools, once more

\* The frames of pool p whose state is Free.
FreeFrames(p) == { i \in Frames(p) : StateOf(p, i) = "Free" }

\* C32: in every state reached without a failed call the counter nFreeFrames
\* of a pool is the number of its frames whose state is Free.
C32_CounterIsFreeCount ==
    ~halted => \A p \in Pools : nFreeFrames[p] = Cardinality(FreeFrames(p))

\* The frame numbers of the runs get_frames returned that were not released
\* through their head since, and the management frame a pool keeps inside.
HeldFrames(p) ==
    UNION { a.head .. a.head + a.n - 1 : a \in AllocsOf(p) }
        \cup (IF info_frame_no[p] = 0 THEN {base_frame_no[p]} ELSE {})

\* C33: the run a get_frames call returns holds no frame of an earlier run
\* that was not released through its head, and not the management frame.
C33_NoFrameTwice ==
    [][(Called("get_frames") /\ ~last'.fatal /\ last'.n >= 1) =>
        (last'.ret .. last'.ret + last'.n - 1)
            \cap HeldFrames(last'.pool) = {}]_vars

\* C34: release_frames reads and writes only the states of frames of the pool
\* that holds the frame: nothing past the last frame of the pool is touched,
\* and the states written are those of the frames whose states were read.
C34_WalkStaysInPool ==
    [][(Called("release_frames") /\ ~last'.fatal) =>
        LET p == last'.pool
            o == last'.arg - base_frame_no[p]
            freed == nFreeFrames'[p] - nFreeFrames[p]
        IN  /\ \A i \in DOMAIN bitmap[p] :
                 i >= nframes[p] => bitmap'[p][i] = bitmap[p][i]
            /\ o + freed <= nframes[p]
            /\ \A i \in Frames(p) :
                 bitmap'[p][i] # bitmap[p][i] => i \in o .. o + freed - 1]_vars

\* ------------------------------------------- the regions of a VM pool

\* The base and length pairs slot ind of the directory of pool v holds.
RegionsOf(v, ind) ==
    { [base |-> b, length |-> l] :
        b \in RegionWords(Machine, v, BaseWord(ind)),
        l \in RegionWords(Machine, v, LengthWord(ind)) }

\* C35: after allocate and release calls that did not fail, every region of
\* the directory of a pool lies inside the window of the pool, from
\* base_address to base_address + size, and no two regions of the directory
\* overlap.
C35_RegionsInsideWindow ==
    \A v \in VMPools :
      (size[v] # 0 /\ ~halted) =>
        /\ \A ind \in 0 .. num_regions[v] - 1 :
             \A r \in RegionsOf(v, ind) :
               /\ base_address[v] <= r.base
               /\ r.base + r.length <= base_address[v] + size[v]
        /\ \A i, j \in 0 .. num_regions[v] - 1 :
             i < j =>
               \A r \in RegionsOf(v, i), s \in RegionsOf(v, j) :
                 r.base + r.length <= s.base \/ s.base + s.length <= r.base

\* ------------------------------------------- the constructor of a VM pool

\* The faults the last call took at the page of the region directory of
\* pool v.
DirectoryFaults(v) ==
    { f \in handled : size[v] # 0 /\ f.page = base_address[v] \div PAGE_SIZE }

\* C36: the constructor of a VM pool registers the pool before its first
\* write to its region directory: every fault the constructor takes at the
\* page of the directory is handled with the pool in the list of the page
\* table and with its is_legitimate accepting the address.
C36_RegisteredBeforeWrite ==
    [][\A v \in VMPools :
        (Called("VMPool") /\ last'.pool = v) =>
            /\ \A f \in DirectoryFaults(v)' :
                 /\ f.pool = v
                 /\ f.present_flag = 1
                 /\ v \in PoolsFrom(vm_pool_head)']_vars

\* C36's case: the second pool was constructed, the fault of its first write
\* was handled with the pool accepting the address, and the directory is
\* written.
C36_Witness ==
    /\ last.op = "VMPool" /\ last.pool = 2 /\ ~halted
    /\ \E f \in DirectoryFaults(2) : f.pool = 2
    /\ RegionIs(Machine, 2, 0, VMPoolBase(2), PAGE_SIZE)

\* ------------------------------------------- release of pages never touched

\* The addresses of the pages of the regions of pool v that start at address a.
PagesOfRegion(v, a) ==
    UNION { { a + k * PAGE_SIZE : k \in 0 .. (RegionLength(v, ind) \div PAGE_SIZE) - 1 }
            : ind \in RegionsAt(v, a) }

\* The frames that back the mapped pages of the regions of pool v at a.
FramesOfRegion(v, a) ==
    UNION { BackingFrames(Machine, current_page_table, AddrOf(x))
            : x \in { y \in PagesOfRegion(v, a) : Mapped(Machine, AddrOf(y)) } }

\* C37: release of a region with a page that was never accessed, so that it is
\* not mapped, does not fail, and the only frames that change their state are
\* the frames of the mapped pages of the region: no frame of any pool changes
\* state for the page that is not mapped.
C37_UnmappedPageSkipped ==
    [][\A v \in VMPools :
        (/\ Called("release") /\ last'.pool = v
         /\ RegionsAt(v, last'.arg) # {}
         /\ \E x \in PagesOfRegion(v, last'.arg) : ~Mapped(Machine, AddrOf(x))) =>
            /\ ~halted'
            /\ \A p \in Pools : \A i \in Frames(p) :
                 StateOfNext(p, i) # StateOf(p, i) =>
                   base_frame_no[p] + i \in FramesOfRegion(v, last'.arg)]_vars

\* ------------------------------------------- the scheduler of MP6

\* The call at which thread u of the blocked queue of kernel k began to wait:
\* a thread that is not in the blocked queue yet begins with this call.
WaitedSince(u) == IF u \in Blocked THEN waited[u] ELSE calls + 1

\* What yield does from kernel k when the disk reports is_ready: with the disk
\* ready and a thread in the blocked queue, the thread that has waited longest
\* is dispatched, it is the head of the blocked queue, and the ready queue is
\* as it was; otherwise the head of the ready queue, if there is one, is taken
\* off and dispatched and the blocked queue is as it was.
YieldDispatches(k, is_ready) ==
    IF is_ready /\ k.blocked_queue # << >>
    THEN /\ current_thread' = Head(k.blocked_queue)
         /\ blocked_queue' = Tail(k.blocked_queue)
         /\ blocked_queue_size' = Len(blocked_queue')
         /\ \A i \in DOMAIN k.blocked_queue :
              WaitedSince(current_thread') <= WaitedSince(k.blocked_queue[i])
         /\ ready_queue' = k.ready_queue /\ qsize' = k.qsize
    ELSE /\ blocked_queue' = k.blocked_queue
         /\ blocked_queue_size' = Len(blocked_queue')
         /\ IF k.ready_queue # << >>
            THEN /\ current_thread' = Head(k.ready_queue)
                 /\ ready_queue' = Tail(k.ready_queue)
                 /\ qsize' = Len(ready_queue')
            ELSE /\ current_thread' = k.current_thread
                 /\ ready_queue' = k.ready_queue /\ qsize' = k.qsize

\* C31: in MP6 a yield while the disk is ready and the blocked queue is not
\* empty dispatches the head of the blocked queue, the thread that called
\* wait_until_ready first, and leaves the ready queue alone; only otherwise is
\* the head of the ready queue taken off and dispatched.  The yield at the end
\* of wait_until_ready does the same, the caller being the last of the
\* blocked queue.
C31_BlockedFirst ==
    [][scheduler = "Scheduler_MP6" =>
        /\ Called("yield") => YieldDispatches(Kernel, last'.n = 1)
        /\ Called("wait_until_ready") =>
             YieldDispatches([Kernel EXCEPT
                                !.blocked_queue = Append(@, current_thread)],
                             last'.n = 1)]_vars

\* C31's cases: the disk was ready and the thread that waited first was
\* dispatched while another thread still waits and the ready queue holds a
\* thread; and the disk was not ready, so the head of the ready queue was
\* dispatched past two waiting threads.
C31_Witness ==
    /\ scheduler = "Scheduler_MP6"
    /\ last.op = "yield" /\ last.n = 1
    /\ current_thread = 1 /\ last.ret = 1
    /\ blocked_queue = <<2>> /\ ready_queue = <<4>>

C31_WitnessNotReady ==
    /\ scheduler = "Scheduler_MP6"
    /\ last.op = "yield" /\ last.n = 0
    /\ Len(blocked_queue) = 2 /\ current_thread \notin Blocked

\* ------------------------------------------- terminate

\* Queue q without thread t, the others in the order they have in q.
Without(q, t) ==
    LET Other(x) == x # t
    IN  SelectSeq(q, Other)

\* C38: terminate(t) of each scheduler takes thread t out of the ready queue
\* and leaves every other thread of the queue in it once, in the order the
\* threads had before the call, and the size counter is the number of threads
\* left in the queue.
C38_TerminateKeepsOrder ==
    [][\A t \in Threads :
        (Called("terminate") /\ last'.arg = t) =>
            /\ ready_queue' = Without(ready_queue, t)
            /\ qsize' = Len(ready_queue')]_vars

====
